---- MODULE Spec2Model ----
(***************************************************************************)
(* LocalDocs indexing and retrieval engine of gpt4all-chat (database.cpp). *)
(* The relational store, the vector index, the scan queue, the embedding   *)
(* batches in flight and the chunker are modelled as one state machine.    *)
(***************************************************************************)
EXTENDS Integers, Sequences, FiniteSets, TLC

(***************************************************************************)
(* Bounds of the model.                                                    *)
(***************************************************************************)
\* read block of the text stream over a file (Qt reads 16384 bytes at once)
BufferSize == 2
\* longest input of the chunker specification, in bytes
MaxBytes == 5
\* largest chunk budget of the chunker specification
MaxBudget == 4
\* largest maxChunks cap of the chunker specification (0 = no cap)
MaxCap == 2

Min(a, b) == IF a < b THEN a ELSE b

(***************************************************************************)
(* Bytes.  A file is a sequence of bytes (0..255); offset p of the file is *)
(* element p + 1 of the sequence.                                          *)
(***************************************************************************)
\* the bytes the chunker specification builds its inputs from:
\* SOH (a binary byte), space, 'a'
Alphabet == {1, 32, 97}

\* QChar::isSpace on the bytes of the model: TAB..CR and space
IsSpace(c) == (c >= 9 /\ c <= 13) \/ c = 32

\* BinaryDetectingFile::checkData: the test applied to each byte read
IsBinaryByte(c) == c < 7 \/ (c >= 14 /\ c < 27) \/ (c >= 28 /\ c < 32)

\* BinaryDetectingFile::readData: the device is read block by block starting
\* at offset from; a block that holds a binary byte fails the read (-1) and
\* every later read.  The result is the offset up to which bytes are
\* delivered: Len(data) when no read fails.
RECURSIVE checkData(_, _)
checkData(data, from) ==
    IF from >= Len(data) THEN Len(data)
    ELSE LET to == Min(from + BufferSize, Len(data))
         IN  IF \E i \in (from + 1)..to : IsBinaryByte(data[i])
             THEN from
             ELSE checkData(data, to)

\* m_binarySeen after the reads of a stream opened at offset from
binarySeen(data, from) == checkData(data, from) < Len(data)

(***************************************************************************)
(* QTextStream >> QString: skip white space, then take the bytes up to the *)
(* next white space or the end of what the device delivers.                *)
(***************************************************************************)
\* a reader that skips one white space character only
skipWhiteSpace_one(data, limit, pos) ==
    IF pos < limit /\ IsSpace(data[pos + 1]) THEN pos + 1 ELSE pos

RECURSIVE skipWhiteSpace(_, _, _)
skipWhiteSpace(data, limit, pos) ==
    IF pos < limit /\ IsSpace(data[pos + 1])
    THEN skipWhiteSpace(data, limit, pos + 1)
    ELSE pos

RECURSIVE scanToken(_, _, _)
scanToken(data, limit, pos) ==
    IF pos < limit /\ ~IsSpace(data[pos + 1])
    THEN scanToken(data, limit, pos + 1)
    ELSE pos

\* the word read at pos: its offset, its length (0: nothing left, the
\* stream's status becomes ReadPastEnd) and the stream position after it
readWord(data, limit, pos) ==
    LET s == skipWhiteSpace(data, limit, pos)
        e == scanToken(data, limit, s)
    IN  [off |-> s, len |-> e - s, pos |-> e]

(***************************************************************************)
(* Database::chunkStream.  st is the state of the loop: the stream         *)
(* position, the words of the open chunk, charCount and the chunks flushed *)
(* so far (each a sequence of words [off, len]).  failed says that the     *)
(* device stops delivering before the end of the file (a failed read), so  *)
(* that the stream has a status and is not atEnd.  The result is the       *)
(* returned position (-1 on a read failure) and the chunks inserted.       *)
(***************************************************************************)
\* the closing rule with the word after it: one more word and the chunk
\* closes only once its length has passed the budget
chunkFull_after(charCount, wordCount, chunkSize) ==
    charCount + wordCount - 1 > chunkSize

\* the closing rule on the number of words instead of the length
chunkFull_words(charCount, wordCount, chunkSize) ==
    wordCount >= chunkSize

\* the closing rule: the length of the open chunk, its words joined by
\* single spaces, has reached the budget
chunkFull(charCount, wordCount, chunkSize) ==
    charCount + wordCount - 1 >= chunkSize

RECURSIVE chunkLoop(_, _, _, _, _, _)
chunkLoop(data, limit, failed, chunkSize, maxChunks, st) ==
    LET w        == readWord(data, limit, st.pos)
        status   == w.len = 0
        words    == IF w.len > 0
                    THEN Append(st.words, [off |-> w.off, len |-> w.len])
                    ELSE st.words
        charCount == st.charCount + w.len
        close    == status \/ chunkFull(charCount, Len(words), chunkSize)
        out      == IF close /\ words # <<>> THEN Append(st.out, words) ELSE st.out
    IN  IF status /\ failed
        THEN [pos |-> -1, chunks |-> st.out]
        ELSE IF close /\ (status \/ (maxChunks > 0 /\ Len(out) = maxChunks))
        THEN [pos |-> w.pos, chunks |-> out]
        ELSE chunkLoop(data, limit, failed, chunkSize, maxChunks,
                       [pos       |-> w.pos,
                        words     |-> IF close THEN <<>> ELSE words,
                        charCount |-> IF close THEN 0 ELSE charCount,
                        out       |-> out])

\* chunkStream over a file that is not positioned: read from its start
chunkStream_noSeek(data, from, chunkSize, maxChunks) ==
    chunkLoop(data, checkData(data, 0), binarySeen(data, 0),
              chunkSize, maxChunks,
              [pos |-> 0, words |-> <<>>, charCount |-> 0, out |-> <<>>])

\* chunkStream over a file (a BinaryDetectingFile read from offset from)
chunkStream(data, from, chunkSize, maxChunks) ==
    chunkLoop(data, checkData(data, from), binarySeen(data, from),
              chunkSize, maxChunks,
              [pos |-> from, words |-> <<>>, charCount |-> 0, out |-> <<>>])

\* chunkStream over the text of a PDF page (a QTextStream over a string:
\* nothing fails, no cap)
chunkString(data, chunkSize) ==
    chunkLoop(data, Len(data), FALSE, chunkSize, 0,
              [pos |-> 0, words |-> <<>>, charCount |-> 0, out |-> <<>>])

(***************************************************************************)
(* The world around the program: folders, files, collection names.         *)
(***************************************************************************)
FolderPaths == {"A", "B"}
CollectionNames == {"Work", "Personal"}
FilePaths == {"A/a.txt", "A/x.txt", "B/b.pdf"}

\* the folder a file lies in
FolderOf(f) == IF f = "B/b.pdf" THEN "B" ELSE "A"

\* QFileInfo::suffix
suffix(f) == IF f = "B/b.pdf" THEN "pdf" ELSE "txt"

\* the extensions the program is constructed with
AllExtensions == {"txt", "pdf"}

\* DocumentInfo::isPdf
isPdf(f) == f = "B/b.pdf"

\* the bytes of each text file: a.txt holds three words, x.txt one word and
\* then the control byte 0x01
ContentOf(f) ==
    CASE f = "A/a.txt" -> <<97, 32, 97, 32, 97>>
      [] f = "A/x.txt" -> <<97, 32, 1>>
      [] OTHER         -> <<>>

\* the text of each page of a PDF: b.pdf has one page of one word
PagesOf(f) ==
    CASE f = "B/b.pdf" -> << <<97>> >>
      [] OTHER         -> <<>>

\* the embedding model the user interface passes to addFolder
EmbModel == "nomic"
\* a null QString (QString()), a NULL column
Null == "null"

\* largest row id the model lets the tables hand out
MaxId == 2
\* largest chunk id (chunks.id is autoincrement: ids are never reused)
MaxChunkId == 5
\* largest modification time of a file
MaxMtime == 2
\* most batches in flight at the embedding backend
MaxInflight == 2
\* most scanQueue calls of one scanQueueBatch (stands for the 100 ms budget)
MaxBatchSteps == 2
\* s_batchSize (100 in the source), scaled to the model
s_batchSize == 2
\* the maxChunks argument of the text scan (100 in the source), scaled
MaxChunksPerSlice == 2
\* m_chunkSize the program is constructed with
InitialChunkSize == 1

\* the ids a handler may compute: one past MaxId, which WithinBounds rejects
Ids == 1..(MaxId + 1)

SetMax(S) == CHOOSE x \in S : \A y \in S : y <= x
\* the rowid SQLite gives a new row of an "integer primary key" table
NewRowId(used) == IF used = {} THEN 1 ELSE SetMax(used) + 1

Range(seq) == {seq[i] : i \in 1..Len(seq)}

(***************************************************************************)
(* The relational store (INIT_DB_SQL).  A table with a unique text column  *)
(* is a function from that column; id -1 stands for "no such row".         *)
(***************************************************************************)
NoCollection == [id |-> -1, embedding_model |-> Null]
NoDocument == [id |-> -1, folder_id |-> -1, document_time |-> -1]

EmptyDb ==
    [folders          |-> [p \in FolderPaths |-> -1],
     collections      |-> [c \in CollectionNames |-> NoCollection],
     collection_items |-> {},
     documents        |-> [f \in FilePaths |-> NoDocument],
     chunks           |-> {},
     chunk_seq        |-> 0,
     tables           |-> FALSE]   \* hasContent(): INIT_DB_SQL has run

FolderIdsOf(d) == {d.folders[p] : p \in FolderPaths} \ {-1}
CollectionIdsOf(d) == {d.collections[c].id : c \in CollectionNames} \ {-1}
DocumentIdsOf(d) == {d.documents[f].id : f \in FilePaths} \ {-1}
ChunkIdsOf(d) == {c.id : c \in d.chunks}

\* selectFolder(q, id, &folder_path)
PathOfFolder(d, fid) == CHOOSE p \in FolderPaths : d.folders[p] = fid

\* getChunksByDocumentId
getChunksByDocumentId(d, document_id) ==
    {c.id : c \in {x \in d.chunks : x.document_id = document_id}}

\* removeChunksByDocumentId
removeChunksByDocumentId(d, document_id) ==
    [d EXCEPT !.chunks = {c \in d.chunks : c.document_id # document_id}]

\* removeDocument
removeDocument(d, document_id) ==
    [d EXCEPT !.documents =
        [f \in FilePaths |-> IF d.documents[f].id = document_id
                             THEN NoDocument ELSE d.documents[f]]]

\* SELECT_DOCUMENTS_SQL: the document ids of a folder
selectDocuments(d, folder_id) ==
    {d.documents[f].id : f \in {g \in FilePaths :
        d.documents[g].id # -1 /\ d.documents[g].folder_id = folder_id}}

\* the folder a chunk row belongs to, through its document (-1: none)
FolderOfChunk(d, chunk_id) ==
    LET rows == {c \in d.chunks : c.id = chunk_id}
        docs == {f \in FilePaths : \E c \in rows :
                    d.documents[f].id # -1 /\ d.documents[f].id = c.document_id}
    IN  IF docs = {} THEN -1 ELSE d.documents[CHOOSE f \in docs : TRUE].folder_id

(***************************************************************************)
(* CollectionItem, the status of a folder kept in m_collectionMap (keyed   *)
(* by folder id) and pushed to the user interface.  Of the progress        *)
(* counters only currentDocsToIndex is kept.                               *)
(***************************************************************************)
\* a default-constructed CollectionItem
DefaultItem ==
    [collection |-> "", folder_id |-> -1, embeddingModel |-> Null,
     installed |-> FALSE, indexing |-> FALSE, forceIndexing |-> FALSE,
     error |-> "", currentDocsToIndex |-> 0]

EmptyMap == [i \in Ids |-> DefaultItem]

MapContains(map, folder_id) == folder_id \in Ids /\ map[folder_id].folder_id # -1

\* guiCollectionItem: QMap::value gives a default-constructed item for a
\* key that is absent (the Q_ASSERT is compiled out of release builds)
guiCollectionItem(map, folder_id) ==
    IF MapContains(map, folder_id) THEN map[folder_id] ELSE DefaultItem

\* updateGuiForCollectionItem / addGuiCollectionItem: the item is stored
\* under its own folder_id; an item stored under -1 belongs to no folder
\* and is not kept
updateGuiForCollectionItem(map, item) ==
    IF item.folder_id \in Ids THEN [map EXCEPT ![item.folder_id] = item] ELSE map

sqlExtractCollections_noForce(d, c, p) ==
    [collection |-> c, folder_id |-> d.folders[p],
     embeddingModel |-> d.collections[c].embedding_model,
     installed |-> TRUE, indexing |-> FALSE, forceIndexing |-> FALSE,
     error |-> "", currentDocsToIndex |-> 0]

\* sqlExtractCollections: one item per row of the collections query
sqlExtractCollections(d, c, p) ==
    [collection |-> c, folder_id |-> d.folders[p],
     embeddingModel |-> d.collections[c].embedding_model,
     installed |-> TRUE, indexing |-> FALSE,
     forceIndexing |-> d.collections[c].embedding_model = Null,
     error |-> "", currentDocsToIndex |-> 0]

\* (collection, folder) pairs in the order of SELECT_COLLECTIONS_SQL_V2:
\* by collection name, then by folder path
PairOrder ==
    << <<"Personal", "A">>, <<"Personal", "B">>, <<"Work", "A">>, <<"Work", "B">> >>

Linked(d, c, p) ==
    /\ d.collections[c].id # -1
    /\ d.folders[p] # -1
    /\ <<d.collections[c].id, d.folders[p]>> \in d.collection_items

\* selectAllFromCollections (version 2)
selectAllFromCollections(d) ==
    SelectSeq(PairOrder, LAMBDA cp : Linked(d, cp[1], cp[2]))

(***************************************************************************)
(* The state a handler works on: the database inside its transaction (db), *)
(* the vector index in memory (idx) and on disk (disk), the scan queue     *)
(* (q), m_chunkList (list), m_collectionMap (map), the watched paths, the  *)
(* scan timer, the batches the handler has handed to the embedding         *)
(* backend (sent) and its chunksToRemove (rm).                             *)
(***************************************************************************)
sendChunkList(w) ==
    [w EXCEPT !.sent = Append(@, w.list), !.list = <<>>]

appendChunk_late(w, chunk) ==
    LET w1 == [w EXCEPT !.list = Append(@, chunk)]
    IN  IF Len(w1.list) > s_batchSize THEN sendChunkList(w1) ELSE w1

appendChunk(w, chunk) ==
    LET w1 == [w EXCEPT !.list = Append(@, chunk)]
    IN  IF Len(w1.list) >= s_batchSize THEN sendChunkList(w1) ELSE w1

\* scheduleNext that leaves the pending chunks in the list
scheduleNext_keepList(w, folder_id, countForFolder) ==
    LET item == guiCollectionItem(w.map, folder_id)
        item1 == IF countForFolder = 0
                 THEN [item EXCEPT !.currentDocsToIndex = 0,
                                   !.indexing = FALSE, !.installed = TRUE]
                 ELSE [item EXCEPT !.currentDocsToIndex = countForFolder]
    IN  [w EXCEPT !.map = updateGuiForCollectionItem(@, item1)]

scheduleNext(w, folder_id, countForFolder) ==
    LET item == guiCollectionItem(w.map, folder_id)
        w1   == IF countForFolder = 0 /\ w.list # <<>> THEN sendChunkList(w) ELSE w
        item1 == IF countForFolder = 0
                 THEN [item EXCEPT !.currentDocsToIndex = 0,
                                   !.indexing = FALSE, !.installed = TRUE]
                 ELSE [item EXCEPT !.currentDocsToIndex = countForFolder]
    IN  [w1 EXCEPT !.map = updateGuiForCollectionItem(@, item1)]

\* the body of chunkStream's flush, for each chunk in turn: addChunk
\* (INSERT_CHUNK_SQL, the id comes from the autoincrement sequence) and
\* appendChunk
RECURSIVE addChunks(_, _, _, _, _)
addChunks(w, folder_id, document_id, page, chunks) ==
    IF chunks = <<>> THEN w
    ELSE LET id  == w.db.chunk_seq + 1
             row == [id |-> id, document_id |-> document_id, page |-> page,
                     words |-> Head(chunks), has_embedding |-> 0]
             w1  == [w EXCEPT !.db.chunks = @ \cup {row}, !.db.chunk_seq = id]
         IN  addChunks(appendChunk(w1, [folder_id |-> folder_id, chunk_id |-> id]),
                       folder_id, document_id, page, Tail(chunks))

\* dequeueDocument takes from the queue of the smallest folder id
firstKey(q) == CHOOSE k \in Ids : q[k] # <<>> /\ \A j \in Ids : j < k => q[j] = <<>>

QueueEmpty(q) == \A k \in Ids : q[k] = <<>>

enqueueDocumentInternal_append(q, info, prepend) ==
    [q EXCEPT ![info.folder] = Append(@, info)]

\* enqueueDocumentInternal
enqueueDocumentInternal(q, info, prepend) ==
    [q EXCEPT ![info.folder] = IF prepend THEN <<info>> \o @ ELSE Append(@, info)]

(***************************************************************************)
(* Database::scanQueue: one queued document, one slice.  files is the file *)
(* system (modification time and existence of each file).  The handler is  *)
(* written as its successive steps, each an operator on the state the      *)
(* step before it leaves.                                                  *)
(***************************************************************************)
\* the chunks of a document go, their ids are queued for removal from the
\* index
purgeChunks(w, document_id) ==
    [w EXCEPT !.rm = IF w.fault = "getChunksByDocumentId" THEN @
                     ELSE @ \cup getChunksByDocumentId(w.db, document_id),
              !.db = IF w.fault = "removeChunksByDocumentId" THEN @
                     ELSE removeChunksByDocumentId(@, document_id),
              !.failed = w.fault = "removeChunksByDocumentId"]

\* the purge before a rescan meets a failing statement: the ids read by
\* getChunksByDocumentId are already in chunksToRemove when
\* removeChunksByDocumentId fails
purgeFailed(w, document_id) ==
    [w EXCEPT !.rm = IF w.fault = "getChunksByDocumentId" THEN @
                     ELSE @ \cup getChunksByDocumentId(w.db, document_id),
              !.failed = TRUE]

\* the end of every path: the document goes back to the front of the queue
\* when there is more of it to scan, and the folder's status is updated
scanQueueEnd(w, folder_id, countForFolder, more, next) ==
    IF more
    THEN scheduleNext([w EXCEPT !.q = enqueueDocumentInternal(@, next, TRUE)],
                      folder_id, countForFolder + 1)
    ELSE scheduleNext(w, folder_id, countForFolder)

\* after the slice of a text file: pos is what chunkStream returned
scanQueueText(w, info, existing_id, countForFolder, pos) ==
    IF pos < 0
    THEN scheduleNext(purgeChunks(w, existing_id), info.folder, countForFolder)
    ELSE scanQueueEnd(w, info.folder, countForFolder,
                      info.currentPosition < Len(ContentOf(info.doc)),
                      [info EXCEPT !.currentPosition = pos,
                                   !.currentlyProcessing = TRUE])

\* a text file: one slice r of at most MaxChunksPerSlice chunks
scanQueueSlice(w, info, existing_id, countForFolder, r) ==
    scanQueueText(addChunks(w, info.folder, w.db.documents[info.doc].id, -1, r.chunks),
                  info, existing_id, countForFolder, r.pos)

\* a PDF: the text of one page
scanQueuePdf(w, info, countForFolder) ==
    LET pages    == PagesOf(info.doc)
        pageText == IF info.currentPage < Len(pages) THEN pages[info.currentPage + 1]
                    ELSE <<>>
    IN  scanQueueEnd(addChunks(w, info.folder, w.db.documents[info.doc].id,
                               info.currentPage + 1,
                               chunkString(pageText, w.chunkSize).chunks),
                     info.folder, countForFolder,
                     info.currentPage < Len(pages),
                     [info EXCEPT !.currentPage = @ + 1,
                                  !.currentlyProcessing = TRUE])

\* the content of the document, by its suffix
scanQueueContent(w, info, existing_id, countForFolder) ==
    IF isPdf(info.doc)
    THEN scanQueuePdf(w, info, countForFolder)
    ELSE scanQueueSlice(w, info, existing_id, countForFolder,
                        chunkStream(ContentOf(info.doc), info.currentPosition,
                                    w.chunkSize, MaxChunksPerSlice))

\* the row of the document written anew under a new id
scanQueueRow_recreate(w, info, document_time) ==
    IF info.currentlyProcessing THEN w
    ELSE [w EXCEPT !.db.documents[info.doc] =
             [id |-> NewRowId(DocumentIdsOf(w.db)), folder_id |-> info.folder,
              document_time |-> document_time]]

\* updateDocument or addDocument, unless the document is one in progress
scanQueueRow(w, info, document_time) ==
    LET existing == w.db.documents[info.doc]
    IN  IF info.currentlyProcessing THEN w
        ELSE [w EXCEPT !.db.documents[info.doc] =
                 IF existing.id # -1
                 THEN [existing EXCEPT !.document_time = document_time]
                 ELSE [id |-> NewRowId(DocumentIdsOf(w.db)),
                       folder_id |-> info.folder,
                       document_time |-> document_time]]

\* the prior chunks of a document that has a row and is not in progress go
scanQueuePurge(w, info) ==
    LET existing_id == w.db.documents[info.doc].id
    IN  IF existing_id # -1 /\ ~info.currentlyProcessing
        THEN purgeChunks(w, existing_id)
        ELSE w

\* the comparison taken for "not newer": a document as old as its row is
\* scanned again
upToDate_older(document_time, existing_time) == document_time < existing_time

\* "No need to rescan": the file's modification time is the stored one
upToDate(document_time, existing_time) == document_time = existing_time

\* info has been taken from the queue
scanQueueDocument(w, files, info) ==
    LET countForFolder == Len(w.q[info.folder])
        existing       == w.db.documents[info.doc]
    IN  IF ~files[info.doc].exists
        THEN scheduleNext(w, info.folder, countForFolder)
        ELSE IF /\ existing.id # -1
                /\ ~info.currentlyProcessing
                /\ upToDate(files[info.doc].mtime, existing.document_time)
        THEN scheduleNext(w, info.folder, countForFolder)
        ELSE IF /\ existing.id # -1
                /\ ~info.currentlyProcessing
                /\ w.fault \in {"getChunksByDocumentId", "removeChunksByDocumentId"}
        THEN scheduleNext(purgeFailed(w, existing.id), info.folder, countForFolder)
        ELSE scanQueueContent(scanQueueRow(scanQueuePurge(w, info), info,
                                           files[info.doc].mtime),
                              info, existing.id, countForFolder)

scanQueue(w, files) ==
    LET key == firstKey(w.q)
    IN  scanQueueDocument([w EXCEPT !.q[key] = Tail(@)], files, Head(w.q[key]))

\* the loop of scanQueueBatch: n calls of scanQueue, fewer if the queue drains
RECURSIVE scanLoop(_, _, _)
scanLoop(w, files, n) ==
    IF n = 0 \/ QueueEmpty(w.q) THEN w
    ELSE scanLoop(scanQueue(w, files), files, n - 1)

\* what follows a handler's loop: the queued removals are applied to the
\* index, the transaction commits, the index is saved if anything was queued
applyRemovals(w) ==
    LET idx == w.idx \ w.rm
    IN  [w EXCEPT !.idx = idx, !.disk = IF w.rm # {} THEN idx ELSE @]

\* scanQueueBatch that leaves the timer running
scanQueueBatch_keepTimer(w, files, n) == applyRemovals(scanLoop(w, files, n))

\* Database::scanQueueBatch
scanQueueBatch(w, files, n) ==
    LET w1 == applyRemovals(scanLoop(w, files, n))
    IN  [w1 EXCEPT !.timer = IF QueueEmpty(w1.q) THEN FALSE ELSE @]

(***************************************************************************)
(* Database::scanDocuments and enqueueDocuments: the readable files below  *)
(* path with an allowed extension are queued for the folder.               *)
(***************************************************************************)
FileOrder == <<"A/a.txt", "A/x.txt", "B/b.pdf">>

NewInfo(folder_id, f) ==
    [folder |-> folder_id, doc |-> f, currentPage |-> 0, currentPosition |-> 0,
     currentlyProcessing |-> FALSE]

scanDocuments(w, files, folder_id, folder_path) ==
    LET found == SelectSeq(FileOrder,
                     LAMBDA f : /\ FolderOf(f) = folder_path
                                /\ files[f].exists
                                /\ suffix(f) \in w.exts)
        infos == [i \in 1..Len(found) |-> NewInfo(folder_id, found[i])]
        q1    == [w.q EXCEPT ![folder_id] = @ \o infos]
        item  == [guiCollectionItem(w.map, folder_id) EXCEPT
                     !.indexing = TRUE, !.currentDocsToIndex = Len(q1[folder_id])]
    IN  IF found = <<>> THEN w
        ELSE [w EXCEPT !.q = q1, !.timer = TRUE,
                       !.map = updateGuiForCollectionItem(@, item)]

(***************************************************************************)
(* Database::handleEmbeddingsGenerated.  A result whose chunk row is gone  *)
(* is skipped; the others are added to the index, the index is saved, and  *)
(* then one transaction sets has_embedding.  flagged = FALSE is the        *)
(* handler cut short after the save (the process dies before the commit).  *)
(***************************************************************************)
\* every result of the batch, whether its chunk row exists or not
chunksToAdd_all(d, batch) == {e.chunk_id : e \in Range(batch)}

chunksToAdd(d, batch) ==
    {e.chunk_id : e \in {x \in Range(batch) : x.chunk_id \in ChunkIdsOf(d)}}

updateChunkHasEmbedding(d, ids) ==
    [d EXCEPT !.chunks =
        {IF c.id \in ids THEN [c EXCEPT !.has_embedding = 1] ELSE c : c \in d.chunks}]

\* the handler with its two steps in the other order: has_embedding is
\* committed, then the index is saved
handleEmbeddingsGenerated_commitFirst(w, batch, rejected, flagged) ==
    LET toAdd == chunksToAdd(w.db, batch) \ rejected
        idx   == w.idx \cup toAdd
        item  == guiCollectionItem(w.map, batch[1].folder_id)
        w1    == [w EXCEPT !.idx = idx, !.map = updateGuiForCollectionItem(@, item)]
    IN  IF toAdd = {} THEN w1
        ELSE [w1 EXCEPT !.db = updateChunkHasEmbedding(@, toAdd),
                        !.disk = IF flagged THEN idx ELSE @]

\* the handler taking every result whose chunk row exists for added
handleEmbeddingsGenerated_flagRejected(w, batch, rejected, flagged) ==
    LET toAdd == chunksToAdd(w.db, batch)
        idx   == w.idx \cup (toAdd \ rejected)
        item  == guiCollectionItem(w.map, batch[1].folder_id)
        w1    == [w EXCEPT !.idx = idx, !.map = updateGuiForCollectionItem(@, item)]
    IN  IF toAdd = {} THEN w1
        ELSE [w1 EXCEPT !.disk = idx,
                        !.db = IF flagged THEN updateChunkHasEmbedding(@, toAdd) ELSE @]

\* rejected holds the chunk ids for which m_embeddings->add returns false
handleEmbeddingsGenerated(w, batch, rejected, flagged) ==
    LET toAdd == chunksToAdd(w.db, batch) \ rejected
        idx   == w.idx \cup toAdd
        item  == guiCollectionItem(w.map, batch[1].folder_id)
        w1    == [w EXCEPT !.idx = idx, !.map = updateGuiForCollectionItem(@, item)]
    IN  IF toAdd = {} THEN w1
        ELSE [w1 EXCEPT !.disk = idx,
                        !.db = IF flagged THEN updateChunkHasEmbedding(@, toAdd) ELSE @]

\* the handler without its updateGuiForCollectionItem
handleErrorGenerated_unset(w, folder_id, error) == w

\* Database::handleErrorGenerated
handleErrorGenerated(w, folder_id, error) ==
    LET item == [guiCollectionItem(w.map, folder_id) EXCEPT !.error = error]
    IN  [w EXCEPT !.map = updateGuiForCollectionItem(@, item)]

(***************************************************************************)
(* removeCollectionFolder and sqlPruneCollections.                         *)
(***************************************************************************)
\* DELETE_COLLECTION_FOLDER_SQL: the number of collection_items rows that
\* still reference the folder after the delete, -1 when no row was deleted
\* (the statement returns no row)
\* the count taken before the row is deleted
removeCollectionFolder_countBefore(d, collection, folder_id) ==
    LET row  == <<d.collections[collection].id, folder_id>>
    IN  IF d.collections[collection].id = -1 \/ row \notin d.collection_items
        THEN [n |-> -1, db |-> d]
        ELSE [n  |-> Cardinality({i \in d.collection_items : i[2] = folder_id}),
              db |-> [d EXCEPT !.collection_items = @ \ {row}]]

removeCollectionFolder_last(d, collection, folder_id) ==
    LET row  == <<d.collections[collection].id, folder_id>>
    IN  IF d.collections[collection].id = -1 \/ row \notin d.collection_items
        THEN [n |-> -1, db |-> d]
        ELSE [n |-> 0, db |-> [d EXCEPT !.collection_items = @ \ {row}]]

removeCollectionFolder(d, collection, folder_id) ==
    LET row  == <<d.collections[collection].id, folder_id>>
        rest == d.collection_items \ {row}
    IN  IF d.collections[collection].id = -1 \/ row \notin d.collection_items
        THEN [n |-> -1, db |-> d]
        ELSE [n  |-> Cardinality({i \in rest : i[2] = folder_id}),
              db |-> [d EXCEPT !.collection_items = rest]]

\* the prune with its test inverted: the collections that have items go
sqlPruneCollections_linked(d) ==
    [d EXCEPT !.collections =
        [c \in CollectionNames |->
            IF \E i \in d.collection_items : i[1] = d.collections[c].id
            THEN NoCollection ELSE d.collections[c]]]

\* PRUNE_COLLECTIONS_SQL
sqlPruneCollections(d) ==
    [d EXCEPT !.collections =
        [c \in CollectionNames |->
            IF \E i \in d.collection_items : i[1] = d.collections[c].id
            THEN d.collections[c] ELSE NoCollection]]

(***************************************************************************)
(* Failing statements.  w.fault names the statement of the handler whose   *)
(* prepare or exec returns false ("none": every statement succeeds);       *)
(* w.failed records that the handler has met the failure and rolled back.  *)
(***************************************************************************)
Statements ==
    {"selectFolder", "removeCollectionFolder", "sqlPruneCollections",
     "selectDocuments", "getChunksByDocumentId", "removeChunksByDocumentId",
     "removeDocument", "removeFolderFromDB", "selectAllFromCollections",
     "selectAllDocuments"}

Fails(w, stmt) == w.fault = stmt

HasFailed(w) == w.failed

\* the failure path of a handler that commits what it has done so far
rollback_commit(w0, w) == [w EXCEPT !.rm = {}, !.failed = TRUE]

\* Database::rollback on the failure path of a handler: the database is as
\* at the start of the transaction (w0), the local list chunksToRemove is
\* dropped; what the handler did in memory stays
rollback(w0, w) == [w EXCEPT !.db = w0.db, !.rm = {}, !.failed = TRUE]

\* one document: its chunk ids are queued for removal from the index, its
\* chunk rows and its row are deleted; [ok, w]
removeDocumentRow(w, document_id) ==
    IF Fails(w, "removeDocument") THEN [ok |-> FALSE, w |-> w]
    ELSE [ok |-> TRUE,
          w  |-> [w EXCEPT !.db = removeDocument(@, document_id)]]

removeChunkRows(w, document_id) ==
    IF Fails(w, "removeChunksByDocumentId") THEN [ok |-> FALSE, w |-> w]
    ELSE removeDocumentRow(
             [w EXCEPT !.db = removeChunksByDocumentId(@, document_id)],
             document_id)

removeDocumentAndChunks(w, document_id) ==
    IF Fails(w, "getChunksByDocumentId") THEN [ok |-> FALSE, w |-> w]
    ELSE removeChunkRows(
             [w EXCEPT !.rm = @ \cup getChunksByDocumentId(w.db, document_id)],
             document_id)

\* the loop over the selected documents, in the order of their ids
RECURSIVE removeDocuments(_, _)
removeDocuments(w, documentIds) ==
    IF documentIds = {} THEN [ok |-> TRUE, w |-> w]
    ELSE LET document_id == CHOOSE x \in documentIds : \A y \in documentIds : x <= y
             r == removeDocumentAndChunks(w, document_id)
         IN  IF ~r.ok THEN r
             ELSE removeDocuments(r.w, documentIds \ {document_id})

removeFolderFromDocumentQueue_keep(q, folder_id) == q

\* removeFolderFromDocumentQueue: the queue of the folder goes
removeFolderFromDocumentQueue(q, folder_id) == [q EXCEPT ![folder_id] = <<>>]

\* removeFolderInternal, the end: the folder row goes, with its status item
\* and its watch
removeFolderRow(w, folder_id, path) ==
    IF Fails(w, "removeFolderFromDB") THEN [ok |-> FALSE, w |-> w]
    ELSE [ok |-> TRUE,
          w  |-> [w EXCEPT !.db.folders[path] = -1,
                     !.map[folder_id] = DefaultItem,
                     !.watched = @ \ {path}]]

\* removeFolderInternal once the last reference is gone
removeLastReference(w, folder_id, path) ==
    LET w1 == [w EXCEPT !.q = removeFolderFromDocumentQueue(@, folder_id)]
        r  == removeDocuments(w1, selectDocuments(w1.db, folder_id))
    IN  IF Fails(w1, "selectDocuments") THEN [ok |-> FALSE, w |-> w1]
        ELSE IF ~r.ok THEN r
        ELSE removeFolderRow(r.w, folder_id, path)

\* Database::removeFolderInternal: [ok, w]
removeFolderInternal(w, collection, folder_id, path) ==
    LET r  == removeCollectionFolder(w.db, collection, folder_id)
        w1 == [w EXCEPT !.db = r.db]
        w2 == [w1 EXCEPT !.db = sqlPruneCollections(@)]
    IN  IF Fails(w, "removeCollectionFolder") \/ r.n = -1
        THEN [ok |-> FALSE, w |-> w]
        ELSE IF Fails(w1, "sqlPruneCollections") THEN [ok |-> FALSE, w |-> w1]
        ELSE IF r.n > 0 THEN [ok |-> TRUE, w |-> w2]
        ELSE removeLastReference(w2, folder_id, path)

\* Database::removeFolder.  saved = FALSE is the handler cut short after
\* the commit (the process dies before the index is saved).
removeFolder(w, collection, path, saved) ==
    LET folder_id == w.db.folders[path]
        r  == removeFolderInternal(w, collection, folder_id, path)
        w1 == applyRemovals(r.w)
    IN  IF Fails(w, "selectFolder") THEN rollback(w, w)
        ELSE IF folder_id = -1 THEN w
        ELSE IF ~r.ok THEN rollback(w, r.w)
        ELSE IF saved THEN w1 ELSE [w1 EXCEPT !.disk = w.disk]

(***************************************************************************)
(* Database::cleanDB: folders whose directory is gone are removed from     *)
(* their collections, documents whose file is gone are removed.  dirs is   *)
(* the set of directories that exist.                                      *)
(***************************************************************************)
\* d0 is the database when the collections were selected
RECURSIVE cleanFolders(_, _, _, _)
cleanFolders(w, dirs, pairs, d0) ==
    IF pairs = <<>> THEN [ok |-> TRUE, w |-> w]
    ELSE LET c == Head(pairs)[1]
             p == Head(pairs)[2]
             r == removeFolderInternal(w, c, d0.folders[p], p)
         IN  IF p \in dirs THEN cleanFolders(w, dirs, Tail(pairs), d0)
             ELSE IF ~r.ok THEN [ok |-> FALSE, w |-> r.w]
             ELSE cleanFolders(r.w, dirs, Tail(pairs), d0)

\* the documents whose file is gone or whose extension is not scanned
MissingDocuments(d, files, exts) ==
    {d.documents[f].id :
        f \in {g \in FilePaths : /\ d.documents[g].id # -1
                                 /\ ~(files[g].exists /\ suffix(g) \in exts)}}

\* cleanDB, the loop over the document rows; w0 is the state the transaction
\* began in
cleanDocuments(w0, w, files) ==
    LET r == removeDocuments(w, MissingDocuments(w.db, files, w.exts))
    IN  IF Fails(w, "selectAllDocuments") THEN rollback(w0, w)
        ELSE IF ~r.ok THEN rollback(w0, r.w)
        ELSE applyRemovals(r.w)

cleanDB(w, files, dirs) ==
    LET r == cleanFolders(w, dirs, selectAllFromCollections(w.db), w.db)
    IN  IF Fails(w, "selectAllFromCollections") THEN rollback(w, w)
        ELSE IF ~r.ok THEN rollback(w, r.w)
        ELSE cleanDocuments(w, r.w, files)

(***************************************************************************)
(* Database::addCurrentFolders and scheduleUncompletedEmbeddings.          *)
(***************************************************************************)
RECURSIVE SortedSeq(_)
SortedSeq(S) ==
    IF S = {} THEN <<>>
    ELSE LET m == CHOOSE x \in S : \A y \in S : x <= y
         IN  <<m>> \o SortedSeq(S \ {m})

\* the batches of at most s_batchSize chunks of a list
RECURSIVE Batches(_)
Batches(list) ==
    IF list = <<>> THEN <<>>
    ELSE <<SubSeq(list, 1, Min(s_batchSize, Len(list)))>>
         \o Batches(SubSeq(list, Min(s_batchSize, Len(list)) + 1, Len(list)))

\* SELECT_UNCOMPLETED_CHUNKS_SQL
selectAllUncompletedChunks(d, folder_id) ==
    LET ids == SortedSeq({c.id : c \in {x \in d.chunks :
                   x.has_embedding # 1 /\ FolderOfChunk(d, x.id) = folder_id}})
    IN  [i \in 1..Len(ids) |-> [folder_id |-> folder_id, chunk_id |-> ids[i]]]

\* a start that submits nothing again
scheduleUncompletedEmbeddings_none(w, folder_id) == w

\* Database::scheduleUncompletedEmbeddings
scheduleUncompletedEmbeddings(w, folder_id) ==
    LET chunkList == selectAllUncompletedChunks(w.db, folder_id)
        item      == guiCollectionItem(w.map, folder_id)
    IN  IF chunkList = <<>> THEN w
        ELSE [w EXCEPT !.map = updateGuiForCollectionItem(@, item),
                       !.sent = @ \o Batches(chunkList)]

\* guiCollectionListUpdated
RECURSIVE guiCollectionListUpdated(_, _, _)
guiCollectionListUpdated(map, d, pairs) ==
    IF pairs = <<>> THEN map
    ELSE guiCollectionListUpdated(
             updateGuiForCollectionItem(map,
                 sqlExtractCollections(d, Head(pairs)[1], Head(pairs)[2])),
             d, Tail(pairs))

RECURSIVE addFolders(_, _, _)
addFolders(w, files, pairs) ==
    IF pairs = <<>> THEN w
    ELSE LET c  == Head(pairs)[1]
             p  == Head(pairs)[2]
             id == w.db.folders[p]
             w1 == scanDocuments(
                       [scheduleUncompletedEmbeddings(w, id) EXCEPT
                           !.watched = @ \cup {p}],
                       files, id, p)
         IN  IF w.db.collections[c].embedding_model = Null
             THEN addFolders(w, files, Tail(pairs))
             ELSE addFolders(w1, files, Tail(pairs))

addCurrentFolders(w, files) ==
    LET collections == selectAllFromCollections(w.db)
    IN  addFolders([w EXCEPT !.map = guiCollectionListUpdated(@, w.db, collections)],
                   files, collections)

(***************************************************************************)
(* Database::changeChunkSize: every document row goes with its chunks, the *)
(* chunk ids are removed from the index, then the folders are scanned      *)
(* again with the new size.                                                *)
(***************************************************************************)
changeChunkSize(w, files, chunkSize) ==
    LET r  == removeDocuments(w, DocumentIdsOf(w.db))
        w1 == applyRemovals(r.w)
    IN  IF chunkSize = w.chunkSize THEN w
        ELSE IF Fails(w, "selectAllDocuments") THEN rollback(w, w)
        ELSE IF ~r.ok THEN rollback(w, r.w)
        ELSE addCurrentFolders([w1 EXCEPT !.chunkSize = chunkSize], files)

\* checkAndAddFolderToDB: the id of the folder's row, inserted if need be;
\* -1 when the path does not exist or the select fails (no tables)
checkAndAddFolderToDB(d, dirs, path) ==
    IF path \notin dirs \/ ~d.tables THEN -1
    ELSE IF d.folders[path] # -1 THEN d.folders[path]
    ELSE NewRowId(FolderIdsOf(d))

(***************************************************************************)
(* Database::addFolder with addCollection and addCollectionItem.  The      *)
(* statements run outside a transaction: what was written before a failing *)
(* statement stays.                                                        *)
(***************************************************************************)
\* the statements of addFolder that may fail after the folder row is written
AddFolderStatements == {"selectCollectionByName", "addCollection", "addCollectionItem"}

\* addFolder that scans the folder again when the pair is already linked
addFolder_rescan(w, files, dirs, collection, path, embedding_model) ==
    LET folder_id == checkAndAddFolderToDB(w.db, dirs, path)
        w1 == [w EXCEPT !.db.folders[path] = folder_id]
        \* selectCollectionByName, addCollection
        found == w1.db.collections[collection].id # -1
        row   == IF found THEN w1.db.collections[collection]
                 ELSE [id |-> NewRowId(CollectionIdsOf(w1.db)),
                       embedding_model |-> embedding_model]
        w2 == [w1 EXCEPT !.db.collections[collection] = row]
        item == IF found
                THEN sqlExtractCollections(w2.db, collection, path)
                ELSE [DefaultItem EXCEPT !.collection = collection,
                                         !.embeddingModel = embedding_model]
        \* addCollectionItem: 1 = added, 0 = already there
        res == IF <<row.id, folder_id>> \in w2.db.collection_items THEN 0 ELSE 1
        w3 == [w2 EXCEPT !.db.collection_items = @ \cup {<<row.id, folder_id>>},
                         !.map = updateGuiForCollectionItem(@,
                                     [item EXCEPT !.folder_id = folder_id])]
        w4 == scanDocuments([w3 EXCEPT !.watched = @ \cup {path}],
                            files, folder_id, path)
    IN  IF folder_id = -1 THEN w
        ELSE IF Fails(w, "selectCollectionByName") THEN [w1 EXCEPT !.failed = TRUE]
        ELSE IF ~found /\ Fails(w, "addCollection") THEN [w1 EXCEPT !.failed = TRUE]
        ELSE IF Fails(w, "addCollectionItem") THEN [w2 EXCEPT !.failed = TRUE]
        ELSE IF res = 0 THEN w4
        ELSE IF item.embeddingModel = Null THEN w3
        ELSE w4

\* Database::addFolder
addFolder(w, files, dirs, collection, path, embedding_model) ==
    LET folder_id == checkAndAddFolderToDB(w.db, dirs, path)
        w1 == [w EXCEPT !.db.folders[path] = folder_id]
        \* selectCollectionByName, addCollection
        found == w1.db.collections[collection].id # -1
        row   == IF found THEN w1.db.collections[collection]
                 ELSE [id |-> NewRowId(CollectionIdsOf(w1.db)),
                       embedding_model |-> embedding_model]
        w2 == [w1 EXCEPT !.db.collections[collection] = row]
        item == IF found
                THEN sqlExtractCollections(w2.db, collection, path)
                ELSE [DefaultItem EXCEPT !.collection = collection,
                                         !.embeddingModel = embedding_model]
        \* addCollectionItem: 1 = added, 0 = already there
        res == IF <<row.id, folder_id>> \in w2.db.collection_items THEN 0 ELSE 1
        w3 == [w2 EXCEPT !.db.collection_items = @ \cup {<<row.id, folder_id>>},
                         !.map = updateGuiForCollectionItem(@,
                                     [item EXCEPT !.folder_id = folder_id])]
        w4 == scanDocuments([w3 EXCEPT !.watched = @ \cup {path}],
                            files, folder_id, path)
    IN  IF folder_id = -1 THEN w
        ELSE IF Fails(w, "selectCollectionByName") THEN [w1 EXCEPT !.failed = TRUE]
        ELSE IF ~found /\ Fails(w, "addCollection") THEN [w1 EXCEPT !.failed = TRUE]
        ELSE IF Fails(w, "addCollectionItem") THEN [w2 EXCEPT !.failed = TRUE]
        ELSE IF res = 0 THEN w2
        ELSE IF item.embeddingModel = Null THEN w3
        ELSE w4

\* addFolder's return value
addFolderOk(w, dirs, path) == checkAndAddFolderToDB(w.db, dirs, path) # -1

\* selectFoldersFromCollection: the folders linked to the collection
selectFoldersFromCollection(d, collection) ==
    SelectSeq(<<"A", "B">>, LAMBDA p : Linked(d, collection, p))

\* setCollectionEmbeddingModel: an update of the row with that name, if any
setCollectionEmbeddingModel(d, collection, embedding_model) ==
    IF d.collections[collection].id = -1 THEN d
    ELSE [d EXCEPT !.collections[collection].embedding_model = embedding_model]

RECURSIVE forceFolders(_, _, _, _)
forceFolders(w, files, folders, embedding_model) ==
    IF folders = <<>> THEN w
    ELSE LET p    == Head(folders)
             id   == w.db.folders[p]
             item == [guiCollectionItem(w.map, id) EXCEPT
                         !.embeddingModel = embedding_model,
                         !.forceIndexing = FALSE]
             w1   == [w EXCEPT !.map = updateGuiForCollectionItem(@, item),
                               !.watched = @ \cup {p}]
         IN  forceFolders(scanDocuments(w1, files, id, p), files,
                          Tail(folders), embedding_model)

(***************************************************************************)
(* Database::forceIndexing: the collection gets its embedding model and    *)
(* each of its folders is watched and scanned.                             *)
(***************************************************************************)
forceIndexing(w, files, collection, embedding_model) ==
    IF ~w.db.tables THEN w
    ELSE forceFolders(
             [w EXCEPT !.db = setCollectionEmbeddingModel(@, collection,
                                                          embedding_model)],
             files, selectFoldersFromCollection(w.db, collection),
             embedding_model)

(***************************************************************************)
(* Database::openLatestDb: the collection list of the older database, when *)
(* no database of the current version has content (SELECT_COLLECTIONS_SQL_V1*)
(* orders by collection name, then folder path).                           *)
(***************************************************************************)
openLatestDb(d, old) ==
    IF d.tables THEN <<>>
    ELSE SelectSeq(PairOrder, LAMBDA pair : pair \in old)

RECURSIVE addOldCollections(_, _, _, _)
addOldCollections(w, files, dirs, oldCollections) ==
    IF oldCollections = <<>> THEN [ok |-> TRUE, w |-> w]
    ELSE LET c == Head(oldCollections)[1]
             p == Head(oldCollections)[2]
         IN  IF ~addFolderOk(w, dirs, p) THEN [ok |-> FALSE, w |-> w]
             ELSE addOldCollections(addFolder(w, files, dirs, c, p, Null),
                                    files, dirs, Tail(oldCollections))

(***************************************************************************)
(* Database::initDb: in one transaction the tables are created and the     *)
(* old collections added with a null embedding model; a failed addFolder   *)
(* rolls the transaction back (what addFolder did in memory stays).        *)
(***************************************************************************)
initDb(w, files, dirs, oldCollections) ==
    IF w.db.tables THEN [ok |-> TRUE, w |-> w]
    ELSE LET r == addOldCollections([w EXCEPT !.db.tables = TRUE],
                                    files, dirs, oldCollections)
         IN  IF r.ok THEN r
             ELSE [ok |-> FALSE, w |-> [r.w EXCEPT !.db = w.db]]

(***************************************************************************)
(* Database::start: the database is opened or created, the index file is   *)
(* loaded, then cleanDB and addCurrentFolders; nothing after a failed      *)
(* initDb (m_databaseValid = false).                                       *)
(***************************************************************************)
start(w, files, dirs, old, index) ==
    LET r == initDb(w, files, dirs, openLatestDb(w.db, old))
    IN  IF ~r.ok THEN r.w
        ELSE addCurrentFolders(cleanDB([r.w EXCEPT !.idx = index], files, dirs),
                               files)

(***************************************************************************)
(* Database::directoryChanged: a clean pass, then the folder is rescanned. *)
(***************************************************************************)
directoryChanged(w, files, dirs, path) ==
    LET folder_id == w.db.folders[path]
        w1 == cleanDB(w, files, dirs)
    IN  IF folder_id = -1 THEN w1
        ELSE scanDocuments(w1, files, folder_id, path)

(***************************************************************************)
(* Database::changeFileExtensions: the list is replaced, a clean pass      *)
(* (whose result is not looked at), then every folder of a collection that *)
(* does not wait for forceIndexing is scanned.                             *)
(***************************************************************************)
RECURSIVE scanFolders(_, _, _)
scanFolders(w, files, pairs) ==
    IF pairs = <<>> THEN w
    ELSE LET c == Head(pairs)[1]
             p == Head(pairs)[2]
         IN  IF w.db.collections[c].embedding_model = Null
             THEN scanFolders(w, files, Tail(pairs))
             ELSE scanFolders(scanDocuments(w, files, w.db.folders[p], p),
                              files, Tail(pairs))

changeFileExtensions(w, files, dirs, extensions) ==
    LET w1 == cleanDB([w EXCEPT !.exts = extensions], files, dirs)
    IN  IF Fails(w1, "selectAllFromCollections") THEN w1
        ELSE scanFolders(w1, files, selectAllFromCollections(w1.db))

(***************************************************************************)
(* Database::retrieveFromDB.                                               *)
(***************************************************************************)
\* the columns of the tables INIT_DB_SQL creates
Schema ==
    [chunks |-> {"id", "document_id", "chunk_text", "file", "title", "author",
                 "subject", "keywords", "page", "line_from", "line_to", "words",
                 "tokens", "has_embedding"},
     collections |-> {"id", "name", "last_update_time", "embedding_model"},
     folders |-> {"id", "folder_path"},
     collection_items |-> {"collection_id", "folder_id"},
     documents |-> {"id", "folder_id", "document_time", "document_path"}]

\* the columns SELECT_CHUNKS_SQL names, as <<table, column>>
SELECT_CHUNKS_SQL ==
    {<<"chunks", "id">>, <<"documents", "document_time">>, <<"chunks", "chunk_text">>,
     <<"chunks", "file">>, <<"chunks", "title">>, <<"chunks", "author">>,
     <<"chunks", "page">>, <<"chunks", "line_from">>, <<"chunks", "line_to">>,
     <<"chunks", "document_id">>, <<"documents", "id">>, <<"documents", "folder_id">>,
     <<"folders", "id">>, <<"collections", "folder_id">>, <<"collections", "name">>}

\* QSqlQuery::prepare fails on a statement that names a column no table has
prepare(sql) == \A ref \in sql : ref[2] \in Schema[ref[1]]

\* selectChunk: the ids of the rows SELECT_CHUNKS_SQL yields
selectChunk(d, collection_names, chunk_ids) ==
    IF ~prepare(SELECT_CHUNKS_SQL) THEN [ok |-> FALSE, rows |-> {}]
    ELSE [ok   |-> TRUE,
          rows |-> {id \in chunk_ids \cap ChunkIdsOf(d) :
                      \E c \in collection_names :
                         /\ d.collections[c].id # -1
                         /\ d.collections[c].folder_id = FolderOfChunk(d, id)}]

\* Embeddings::isLoaded: the index is loaded once it holds a vector (it was
\* read from its file or a vector was added to it)
isLoaded(idx) == idx # {}

\* what a read beyond the end of a vector of qint64 may yield: the id of a
\* chunk or of none
JunkIds == -1 .. MaxChunkId

\* the handler without its check of isLoaded
retrieveFromDB_unchecked(d, idx, collection_names, hits) ==
    LET r == selectChunk(d, collection_names, hits)
    IN  [done |-> TRUE, called |-> TRUE, rows |-> IF r.ok THEN r.rows ELSE {},
         oob |-> hits = {}]

\* retrieveFromDB: hits is what the search of the index returns.  The
\* result tells whether generateEmbeddings was called for the query, which
\* rows were appended to the result list, and (oob) whether selectChunk was
\* handed an empty vector, whose element 0 it reads before anything else.
retrieveFromDB(d, idx, collection_names, hits) ==
    LET r == selectChunk(d, collection_names, hits)
    IN  IF ~isLoaded(idx)
        THEN [done |-> TRUE, called |-> FALSE, rows |-> {}, oob |-> FALSE]
        ELSE [done |-> TRUE, called |-> TRUE,
              rows |-> IF r.ok THEN r.rows ELSE {}, oob |-> hits = {}]

(***************************************************************************)
(* State.                                                                  *)
(***************************************************************************)
VARIABLES
    db,               \* the committed relational store (localdocs_v2.db)
    disk,             \* the vector index file: the chunk ids it holds
    m_embeddings,     \* the vector index in memory
    m_docsToScan,     \* folder id -> queue of DocumentInfo
    m_chunkList,      \* chunks waiting for a full batch
    m_collectionMap,  \* folder id -> CollectionItem
    m_watchedPaths,
    scanTimer,        \* m_scanTimer is active
    m_chunkSize,
    m_scannedFileExtensions,
    inflight,         \* batches handed to the embedding backend
    fs,               \* file -> [mtime, exists]
    dirs,             \* the directories that exist
    running,          \* the process is up (start() has run)
    results,          \* what the last retrieveFromDB did
    oldDb,            \* localdocs_v1.db: its (collection_name, folder_path) rows
    cs                \* the chunker specification: a document chunked in slices

vars == <<db, disk, m_embeddings, m_docsToScan, m_chunkList, m_collectionMap,
          m_watchedPaths, scanTimer, m_chunkSize, m_scannedFileExtensions,
          inflight, fs, dirs, running, results, oldDb, cs>>

memVars == <<m_embeddings, m_docsToScan, m_chunkList, m_collectionMap,
             m_watchedPaths, scanTimer, m_chunkSize, m_scannedFileExtensions,
             inflight>>

\* most entries in the queue of one folder
MaxQueue == 2

EmptyQueue == [k \in Ids |-> <<>>]

NoCs == [data |-> <<>>, chunkSize |-> 0, maxChunks |-> 0, pos |-> 0,
         out |-> <<>>, whole |-> <<>>, pc |-> "off"]

NoResults == [done |-> FALSE, called |-> FALSE, rows |-> {}, oob |-> FALSE]

\* the state after construction, before start(): nothing on disk, nothing
\* in memory; present is the set of files that exist, folders the set of
\* directories, old the collection list of a database of the older version
InitState(present, folders, old) ==
    /\ oldDb = old
    /\ db = EmptyDb
    /\ disk = {}
    /\ m_embeddings = {}
    /\ m_docsToScan = EmptyQueue
    /\ m_chunkList = <<>>
    /\ m_collectionMap = EmptyMap
    /\ m_watchedPaths = {}
    /\ scanTimer = FALSE
    /\ m_chunkSize = InitialChunkSize
    /\ m_scannedFileExtensions = AllExtensions
    /\ inflight = <<>>
    /\ fs = [f \in FilePaths |-> [mtime |-> 1, exists |-> f \in present]]
    /\ dirs = folders
    /\ running = FALSE
    /\ results = NoResults

\* no database of an older version
InitWith(present, folders) == InitState(present, folders, {})

\* one folder holding one file: the text file a.txt, the binary file x.txt or
\* the PDF b.pdf
Init ==
    /\ cs = NoCs
    /\ \E f \in FilePaths : InitWith({f}, {FolderOf(f)})

\* the state a handler starts from
World ==
    [db |-> db, idx |-> m_embeddings, disk |-> disk, q |-> m_docsToScan,
     list |-> m_chunkList, map |-> m_collectionMap, watched |-> m_watchedPaths,
     timer |-> scanTimer, chunkSize |-> m_chunkSize,
     exts |-> m_scannedFileExtensions,
     sent |-> <<>>, rm |-> {}, fault |-> "none", failed |-> FALSE]

\* the state a handler starts from when the database is going to fail
WorldWith(fault) == [World EXCEPT !.fault = fault]

\* the model's bounds on what a handler may produce
WithinBounds(w) ==
    /\ w.db.chunk_seq <= MaxChunkId
    /\ FolderIdsOf(w.db) \cup CollectionIdsOf(w.db) \cup DocumentIdsOf(w.db)
          \subseteq 1..MaxId
    /\ Len(inflight) + Len(w.sent) <= MaxInflight
    /\ \A k \in Ids : Len(w.q[k]) <= MaxQueue

\* the handler has run to its end: w is the state it leaves, rest the
\* batches still at the backend
Done(w, rest) ==
    /\ WithinBounds(w)
    /\ db' = w.db
    /\ disk' = w.disk
    /\ m_embeddings' = w.idx
    /\ m_docsToScan' = w.q
    /\ m_chunkList' = w.list
    /\ m_collectionMap' = w.map
    /\ m_watchedPaths' = w.watched
    /\ scanTimer' = w.timer
    /\ m_chunkSize' = w.chunkSize
    /\ m_scannedFileExtensions' = w.exts
    /\ inflight' = rest \o w.sent
    /\ UNCHANGED <<fs, dirs, running, results, cs, oldDb>>

\* the process dies: what is in memory and at the backend is lost, the
\* database and the index file are as d and x; the list of extensions is a
\* setting of the user, which the constructor is given again
Died(d, x) ==
    /\ db' = d
    /\ disk' = x
    /\ m_embeddings' = {}
    /\ m_docsToScan' = EmptyQueue
    /\ m_chunkList' = <<>>
    /\ m_collectionMap' = EmptyMap
    /\ m_watchedPaths' = {}
    /\ scanTimer' = FALSE
    /\ m_chunkSize' = InitialChunkSize
    /\ inflight' = <<>>
    /\ running' = FALSE
    /\ results' = NoResults
    /\ UNCHANGED <<m_scannedFileExtensions, fs, dirs, cs, oldDb>>

(***************************************************************************)
(* Actions: one per handler of the database thread, one per event of the   *)
(* world around it.                                                        *)
(***************************************************************************)
\* Database::start
Start ==
    /\ ~running
    /\ LET w == start(World, fs, dirs, oldDb, disk)
       IN  /\ WithinBounds(w)
           /\ db' = w.db
           /\ disk' = w.disk
           /\ m_embeddings' = w.idx
           /\ m_docsToScan' = w.q
           /\ m_chunkList' = w.list
           /\ m_collectionMap' = w.map
           /\ m_watchedPaths' = w.watched
           /\ scanTimer' = w.timer
           /\ m_chunkSize' = w.chunkSize
           /\ inflight' = w.sent
           /\ running' = TRUE
           /\ UNCHANGED <<m_scannedFileExtensions, fs, dirs, results, cs, oldDb>>

\* addFolder from the user interface, for a collection name among names
AddFolder(names) ==
    /\ running
    /\ \E c \in names, p \in FolderPaths :
          Done(addFolder(World, fs, dirs, c, p, EmbModel), inflight)

\* removeFolder for a folder the user interface lists under the collection;
\* the second disjunct is the process dying after the commit, before the
\* index is saved
RemoveFolder ==
    /\ running
    /\ \E c \in CollectionNames, p \in FolderPaths :
          /\ Linked(db, c, p)
          /\ \/ Done(removeFolder(World, c, p, TRUE), inflight)
             \/ LET w == removeFolder(World, c, p, FALSE)
                IN  /\ w.rm # {}
                    /\ Died(w.db, w.disk)

\* the scan timer fires; the second disjunct is the process dying after the
\* commit, before the index is saved
ScanQueueBatch ==
    /\ running
    /\ scanTimer
    /\ \E n \in 1..MaxBatchSteps :
          LET w == scanQueueBatch(World, fs, n)
          IN  \/ Done(w, inflight)
              \/ /\ w.rm # {}
                 /\ WithinBounds(w)
                 /\ Died(w.db, disk)

Without(seq, i) == SubSeq(seq, 1, i - 1) \o SubSeq(seq, i + 1, Len(seq))

\* the backend has embedded a batch; the second disjunct is the process
\* dying after the index is saved, before has_embedding is committed
\* batch i is handled to the end, or the process dies after the save of
\* the index and before the commit
EmbeddingsHandled(i, rejected) ==
    \/ Done(handleEmbeddingsGenerated(World, inflight[i], rejected, TRUE),
            Without(inflight, i))
    \/ LET w == handleEmbeddingsGenerated(World, inflight[i], rejected, FALSE)
       IN  /\ w.disk # disk \/ w.db # db
           /\ Died(w.db, w.disk)

\* every add to the index succeeds
EmbeddingsGenerated ==
    /\ running
    /\ \E i \in 1..Len(inflight) : EmbeddingsHandled(i, {})

\* the index rejects some of the vectors of the batch
EmbeddingsRejected ==
    /\ running
    /\ \E i \in 1..Len(inflight) :
          \E rejected \in (SUBSET {e.chunk_id : e \in Range(inflight[i])}) \ {{}} :
             EmbeddingsHandled(i, rejected)

\* the backend has failed on a batch
ErrorGenerated ==
    /\ running
    /\ \E i \in 1..Len(inflight) :
          Done(handleErrorGenerated(World, inflight[i][1].folder_id, "error"),
               Without(inflight, i))

\* the file system watcher reports a change in a watched directory
DirectoryChanged ==
    /\ running
    /\ \E p \in m_watchedPaths :
          Done(directoryChanged(World, fs, dirs, p), inflight)

\* the process dies between two handlers
Crash ==
    /\ running
    /\ Died(db, disk)

\* a file is written: its modification time moves on
TouchFile ==
    \E f \in FilePaths :
       /\ fs[f].exists
       /\ fs[f].mtime < MaxMtime
       /\ fs' = [fs EXCEPT ![f].mtime = @ + 1]
       /\ UNCHANGED <<db, disk, memVars, dirs, running, results, cs, oldDb>>

\* a file is deleted
DeleteFile ==
    \E f \in FilePaths :
       /\ fs[f].exists
       /\ fs' = [fs EXCEPT ![f].exists = FALSE]
       /\ UNCHANGED <<db, disk, memVars, dirs, running, results, cs, oldDb>>

\* a directory is deleted with the files in it
DeleteFolder ==
    \E p \in dirs :
       /\ dirs' = dirs \ {p}
       /\ fs' = [f \in FilePaths |->
                   IF FolderOf(f) = p THEN [fs[f] EXCEPT !.exists = FALSE] ELSE fs[f]]
       /\ UNCHANGED <<db, disk, memVars, running, results, cs, oldDb>>

\* the lists of extensions the user may choose
ExtensionLists == {{"txt"}, {"txt", "pdf"}}

\* the user changes the list of extensions
ChangeFileExtensions ==
    /\ running
    /\ \E extensions \in ExtensionLists \ {m_scannedFileExtensions} :
          Done(changeFileExtensions(World, fs, dirs, extensions), inflight)

\* addFolder with a statement that fails after the folder row was written
AddFolderFails ==
    /\ running
    /\ \E c \in CollectionNames, p \in FolderPaths, fault \in AddFolderStatements :
          LET w == addFolder(WorldWith(fault), fs, dirs, c, p, EmbModel)
          IN  HasFailed(w) /\ Done(w, inflight)

\* retrieveFromDB for the collection "Work" with a retrievalSize no smaller
\* than the index, so that the search returns every id of the index
Retrieve ==
    /\ running
    /\ results' = retrieveFromDB(db, m_embeddings, {"Work"}, m_embeddings)
    /\ UNCHANGED <<db, disk, memVars, fs, dirs, running, cs, oldDb>>

\* retrieveFromDB for the collection "Work" where the search of the index
\* returns hits, any of the ids the index holds, none included.  Handed an
\* empty vector, selectChunk reads chunk_ids[0] beyond its end: the read
\* yields some number junk and the statement is built for that one id.
Search ==
    /\ running
    /\ \E hits \in SUBSET m_embeddings, junk \in JunkIds :
          LET r == retrieveFromDB(db, m_embeddings, {"Work"}, hits)
          IN  results' = IF r.oob
                         THEN [retrieveFromDB(db, m_embeddings, {"Work"}, {junk})
                                 EXCEPT !.oob = TRUE]
                         ELSE r
    /\ UNCHANGED <<db, disk, memVars, fs, dirs, running, cs, oldDb>>

\* the other outcome of the read beyond the end of the vector: the process
\* dies in retrieveFromDB
SearchDies ==
    /\ running
    /\ retrieveFromDB(db, m_embeddings, {"Work"}, {}).oob
    /\ Died(db, disk)

(***************************************************************************)
(* Spec: one collection ("Work"), one folder with one file, every handler  *)
(* of the scan and embedding pipeline, file changes and process deaths.    *)
(***************************************************************************)
Next ==
    \/ Start
    \/ AddFolder({"Work"})
    \/ RemoveFolder
    \/ ScanQueueBatch
    \/ EmbeddingsGenerated
    \/ ErrorGenerated
    \/ DirectoryChanged
    \/ Crash
    \/ TouchFile
    \/ DeleteFile

Spec == Init /\ [][Next]_vars

(***************************************************************************)
(* SpecFolders: two collections over two folders (A is empty, B holds      *)
(* b.pdf),                                                                 *)
(* folders added and removed, scanned, embedded and retrieved from; no     *)
(* file changes, and the process dies only inside removeFolder.            *)
(***************************************************************************)
InitFolders ==
    /\ cs = NoCs
    /\ InitWith({"B/b.pdf"}, FolderPaths)

\* most chunk rows ever inserted in a behaviour of SpecFolders
MaxFolderChunks == 2

NextFolders ==
    \/ Start
    \/ AddFolder(CollectionNames)
    \/ RemoveFolder
    \/ ScanQueueBatch /\ db'.chunk_seq <= MaxFolderChunks
    \/ EmbeddingsGenerated
    \/ Retrieve

SpecFolders == InitFolders /\ [][NextFolders]_vars

(***************************************************************************)
(* SpecClean: two collections over two folders (A is empty, B holds        *)
(* b.pdf); the file and the directories are deleted, the list of           *)
(* extensions changes, and clean passes run at start, on a change of a     *)
(* watched directory and on a change of the list.  addFolder may fail      *)
(* halfway.                                                                *)
(***************************************************************************)
InitClean ==
    /\ cs = NoCs
    /\ InitWith({"B/b.pdf"}, FolderPaths)

\* most chunk rows ever inserted in a behaviour of SpecClean
MaxCleanChunks == 1

NextClean ==
    \/ Start
    \/ AddFolder(CollectionNames)
    \/ AddFolderFails
    \/ ScanQueueBatch /\ db'.chunk_seq <= MaxCleanChunks
    \/ EmbeddingsGenerated
    \/ DirectoryChanged
    \/ ChangeFileExtensions
    \/ DeleteFile
    \/ DeleteFolder

SpecClean == InitClean /\ [][NextClean]_vars

(***************************************************************************)
(* SpecChunk: the chunker alone.  A document of at most MaxBytes bytes is  *)
(* chunked with a budget and a maxChunks cap, slice after slice as         *)
(* scanQueue does it (lines 1199-1250), and in one pass without a cap.     *)
(***************************************************************************)
RECURSIVE ByteSeqs(_)
ByteSeqs(n) ==
    IF n = 0 THEN {<<>>}
    ELSE LET shorter == ByteSeqs(n - 1)
         IN  shorter \cup {Append(b, c) : b \in {x \in shorter : Len(x) = n - 1},
                                          c \in Alphabet}

InitChunk ==
    /\ InitWith({}, {})
    /\ \E data \in ByteSeqs(MaxBytes), size \in 1..MaxBudget, cap \in 0..MaxCap :
          cs = [data |-> data, chunkSize |-> size, maxChunks |-> cap, pos |-> 0,
                out |-> <<>>, whole |-> <<>>, pc |-> "start"]

\* the whole document in one pass with no cap
ChunkWhole ==
    /\ cs.pc = "start"
    /\ cs' = [cs EXCEPT !.pc = "slice",
                        !.whole = chunkStream(cs.data, 0, cs.chunkSize, 0).chunks]
    /\ UNCHANGED <<db, disk, memVars, fs, dirs, running, results, oldDb>>

\* one slice from the position the last one returned: the document is put
\* back in the queue with the returned position while the position the slice
\* started from lies before the end of the file
ChunkSlice ==
    /\ cs.pc = "slice"
    /\ LET r == chunkStream(cs.data, cs.pos, cs.chunkSize, cs.maxChunks)
       IN  cs' = [cs EXCEPT !.out = @ \o r.chunks,
                            !.pos = IF r.pos >= 0 /\ cs.pos < Len(cs.data)
                                    THEN r.pos ELSE @,
                            !.pc  = IF r.pos < 0 THEN "binary"
                                    ELSE IF cs.pos < Len(cs.data) THEN "slice"
                                    ELSE "done"]
    /\ UNCHANGED <<db, disk, memVars, fs, dirs, running, results, oldDb>>

NextChunk == ChunkWhole \/ ChunkSlice

SpecChunk == InitChunk /\ [][NextChunk]_vars

(***************************************************************************)
(* SpecRead: a BinaryDetectingFile over a short file is read block by      *)
(* block (QFile::readData may fail), and scanQueue then sorts the outcome  *)
(* of the slice.  Here cs is the file object.                              *)
(***************************************************************************)
\* the bytes at the borders of the ranges checkData tests
ByteSamples == {0, 6, 7, 13, 14, 26, 27, 28, 31, 32, 255}

\* the files read: every single byte, and the pairs of border bytes
ReadFiles ==
    {<<>>} \cup {<<c>> : c \in 0..255}
           \cup {<<c, e>> : c \in ByteSamples, e \in ByteSamples}

\* readData that looks only at the bytes of this read
readData_forget(file, maxSize, ioError) ==
    LET res  == IF ioError THEN -1 ELSE Min(maxSize, Len(file.data) - file.qpos)
        seen == res # -1 /\ \E i \in 1..res : IsBinaryByte(file.data[file.qpos + i])
    IN  [file EXCEPT !.qpos = IF res = -1 THEN @ ELSE @ + res,
                     !.m_binarySeen = seen,
                     !.res = IF seen THEN -1 ELSE res,
                     !.pc = "read"]

\* BinaryDetectingFile::readData: QFile::readData delivers res bytes (-1 on
\* an input error) and checkData looks through them unless a binary byte
\* was seen before
readData(file, maxSize, ioError) ==
    LET res  == IF ioError THEN -1 ELSE Min(maxSize, Len(file.data) - file.qpos)
        seen == \/ file.m_binarySeen
                \/ res # -1 /\ \E i \in 1..res : IsBinaryByte(file.data[file.qpos + i])
    IN  [file EXCEPT !.qpos = IF res = -1 THEN @ ELSE @ + res,
                     !.m_binarySeen = seen,
                     !.res = IF seen THEN -1 ELSE res,
                     !.pc = "read"]

\* scanQueue after chunkStream: pos < 0 is a failed read, and binarySeen
\* tells the file with binary data from the read error
readOutcome(pos, seen) ==
    IF pos < 0
    THEN IF ~seen THEN "error" ELSE "binary"
    ELSE "chunked"

InitRead ==
    /\ InitWith({}, {})
    /\ \E data \in ReadFiles :
          cs = [data |-> data, qpos |-> 0, m_binarySeen |-> FALSE, res |-> 0,
                outcome |-> "none", pc |-> "open"]

\* one read of at most maxSize bytes
ReadData ==
    /\ cs.pc \in {"open", "read"}
    /\ \E maxSize \in 1..BufferSize, ioError \in BOOLEAN :
          cs' = readData(cs, maxSize, ioError)
    /\ UNCHANGED <<db, disk, memVars, fs, dirs, running, results, oldDb>>

\* the slice is over: chunkStream returns -1 when the last read failed
ReadOutcome ==
    /\ cs.pc = "read"
    /\ cs' = [cs EXCEPT !.pc = "closed",
                        !.outcome = readOutcome(IF cs.res = -1 THEN -1 ELSE cs.qpos,
                                                cs.m_binarySeen)]
    /\ UNCHANGED <<db, disk, memVars, fs, dirs, running, results, oldDb>>

NextRead == ReadData \/ ReadOutcome

SpecRead == InitRead /\ [][NextRead]_vars

(***************************************************************************)
(* SpecExample: the chunker on the text "alpha beta gamma delta epsilon"   *)
(* and on each of its prefixes, with every budget up to MaxExampleBudget   *)
(* and every cap up to MaxCap.                                             *)
(***************************************************************************)
\* "alpha beta gamma delta epsilon" in bytes
ExampleText ==
    <<97, 108, 112, 104, 97, 32,
      98, 101, 116, 97, 32,
      103, 97, 109, 109, 97, 32,
      100, 101, 108, 116, 97, 32,
      101, 112, 115, 105, 108, 111, 110>>

\* largest chunk budget of the example
MaxExampleBudget == 12

InitExample ==
    /\ InitWith({}, {})
    /\ \E n \in 0..Len(ExampleText), size \in 1..MaxExampleBudget, cap \in 0..MaxCap :
          cs = [data |-> SubSeq(ExampleText, 1, n), chunkSize |-> size,
                maxChunks |-> cap, pos |-> 0, out |-> <<>>, whole |-> <<>>,
                pc |-> "start"]

SpecExample == InitExample /\ [][NextChunk]_vars

(***************************************************************************)
(* SpecPair: one collection over folder A, which holds the text file a.txt *)
(* and the file x.txt; the files are scanned, embedded, written again and  *)
(* scanned again.  The process dies only inside a handler.                 *)
(***************************************************************************)
InitPair ==
    /\ cs = NoCs
    /\ InitWith({"A/a.txt", "A/x.txt"}, {"A"})

NextPair ==
    \/ Start
    \/ AddFolder({"Work"})
    \/ ScanQueueBatch
    \/ EmbeddingsGenerated
    \/ DirectoryChanged
    \/ TouchFile

SpecPair == InitPair /\ [][NextPair]_vars

(***************************************************************************)
(* SpecEmbed: one collection over folder A with the file a.txt; the file   *)
(* is scanned, its chunks are embedded, the index may reject vectors, and  *)
(* the process may die inside the handler of a batch.                      *)
(***************************************************************************)
InitEmbed ==
    /\ cs = NoCs
    /\ InitWith({"A/a.txt"}, {"A"})

NextEmbed ==
    \/ Start
    \/ AddFolder({"Work"})
    \/ ScanQueueBatch
    \/ EmbeddingsGenerated
    \/ EmbeddingsRejected

SpecEmbed == InitEmbed /\ [][NextEmbed]_vars

(***************************************************************************)
(* SpecTail: scanQueueBatch and removeFolder statement by statement after  *)
(* their loop: the removals from the index, the commit, the save.  One     *)
(* collection over folder A with the file a.txt, which is scanned,         *)
(* embedded, written again and scanned again.  Here cs is the frame of the *)
(* handler that is running: its position pc, the database inside its       *)
(* transaction and its chunksToRemove; no other handler runs before it has *)
(* returned.                                                               *)
(***************************************************************************)
\* the order of the three statements with the commit first
tailStep_commitFirst(pc) ==
    CASE pc = "loop"   -> "commit"
      [] pc = "commit" -> "remove"
      [] pc = "remove" -> "save"
      [] OTHER         -> "off"

\* the statement that follows each statement of the handler's end: the loop
\* over chunksToRemove, commit(), the save of the index
tailStep(pc) ==
    CASE pc = "loop"   -> "remove"
      [] pc = "remove" -> "commit"
      [] pc = "commit" -> "save"
      [] OTHER         -> "off"

\* the handler has run its loop: what it did in memory is done, what it did
\* in the database waits for the commit
LoopDone(op, w) ==
    /\ WithinBounds(w)
    /\ m_docsToScan' = w.q
    /\ m_chunkList' = w.list
    /\ m_collectionMap' = w.map
    /\ m_watchedPaths' = w.watched
    /\ scanTimer' = w.timer
    /\ inflight' = inflight \o w.sent
    /\ cs' = [pc |-> tailStep("loop"), op |-> op, db |-> w.db, rm |-> w.rm]
    /\ UNCHANGED <<db, disk, m_embeddings, m_chunkSize, m_scannedFileExtensions,
                   fs, dirs, running, results, oldDb>>

\* scanQueueBatch up to the end of its loop
ScanLoop ==
    /\ running
    /\ scanTimer
    /\ cs = NoCs
    /\ \E n \in 1..MaxBatchSteps : LoopDone("scanQueueBatch", scanLoop(World, fs, n))

\* removeFolder up to the return of removeFolderInternal
RemoveLoop ==
    /\ running
    /\ cs = NoCs
    /\ \E c \in CollectionNames, p \in FolderPaths :
          /\ Linked(db, c, p)
          /\ LoopDone("removeFolder", removeFolderInternal(World, c, db.folders[p], p).w)

\* for (chunk: chunksToRemove) m_embeddings->remove(chunk)
TailRemove ==
    /\ cs.pc = "remove"
    /\ m_embeddings' = m_embeddings \ cs.rm
    /\ cs' = [cs EXCEPT !.pc = tailStep("remove")]
    /\ UNCHANGED <<db, disk, m_docsToScan, m_chunkList, m_collectionMap,
                   m_watchedPaths, scanTimer, m_chunkSize, m_scannedFileExtensions,
                   inflight, fs, dirs, running, results, oldDb>>

\* commit()
TailCommit ==
    /\ cs.pc = "commit"
    /\ db' = cs.db
    /\ cs' = [cs EXCEPT !.pc = tailStep("commit")]
    /\ UNCHANGED <<disk, memVars, fs, dirs, running, results, oldDb>>

\* if (!chunksToRemove.isEmpty()) m_embeddings->save(); scanQueueBatch then
\* stops the timer when the queue is empty; the handler returns
TailSave ==
    /\ cs.pc = "save"
    /\ disk' = IF cs.rm # {} THEN m_embeddings ELSE disk
    /\ scanTimer' = IF cs.op = "scanQueueBatch" /\ QueueEmpty(m_docsToScan)
                    THEN FALSE ELSE scanTimer
    /\ cs' = IF tailStep("save") = "off" THEN NoCs ELSE [cs EXCEPT !.pc = tailStep("save")]
    /\ UNCHANGED <<db, m_embeddings, m_docsToScan, m_chunkList, m_collectionMap,
                   m_watchedPaths, m_chunkSize, m_scannedFileExtensions,
                   inflight, fs, dirs, running, results, oldDb>>

InitTail ==
    /\ cs = NoCs
    /\ InitWith({"A/a.txt"}, {"A"})

NextTail ==
    \/ cs = NoCs /\ Start
    \/ cs = NoCs /\ AddFolder({"Work"})
    \/ cs = NoCs /\ EmbeddingsGenerated
    \/ cs = NoCs /\ TouchFile
    \/ cs = NoCs /\ DirectoryChanged
    \/ ScanLoop
    \/ RemoveLoop
    \/ TailRemove
    \/ TailCommit
    \/ TailSave

SpecTail == InitTail /\ [][NextTail]_vars

(***************************************************************************)
(* SpecLive: one collection over folder A with the text file a.txt and     *)
(* folder B with the PDF b.pdf.  The folders are added once each, their    *)
(* files are scanned slice by slice and embedded.  The scan timer keeps    *)
(* firing while it is active (it is a repeating QTimer), and the embedding *)
(* backend answers every batch.                                            *)
(***************************************************************************)
InitLive ==
    /\ cs = NoCs
    /\ InitWith({"A/a.txt", "B/b.pdf"}, FolderPaths)

NextLive ==
    \/ Start
    \/ AddFolder({"Work"})
    \/ ScanQueueBatch
    \/ EmbeddingsGenerated

\* the state in which a step of ScanQueueBatch that changes the state is
\* possible: ENABLED <<ScanQueueBatch>>_vars, written as a state predicate
ScanEnabled ==
    /\ running
    /\ scanTimer
    /\ \E n \in 1..MaxBatchSteps :
          LET w == scanQueueBatch(World, fs, n)
          IN  /\ WithinBounds(w)
              /\ \/ w.rm # {}
                 \/ <<w.db, w.disk, w.idx, w.q, w.list, w.map, w.watched,
                      w.timer, w.chunkSize, w.exts, w.sent>>
                    # <<db, disk, m_embeddings, m_docsToScan, m_chunkList,
                        m_collectionMap, m_watchedPaths, scanTimer,
                        m_chunkSize, m_scannedFileExtensions, <<>>>>

\* weak fairness of ScanQueueBatch: the repeating timer calls scanQueueBatch
\* for as long as it is active
ScanTimerFires ==
    \/ []<>~ScanEnabled
    \/ []<><<ScanQueueBatch>>_vars

SpecLive ==
    /\ InitLive
    /\ [][NextLive]_vars
    /\ ScanTimerFires
    /\ WF_vars(EmbeddingsGenerated)

(***************************************************************************)
(* SpecBatch: one collection over folder A with the text file a.txt and    *)
(* folder B with the PDF b.pdf; the folders are added and removed while    *)
(* their files are scanned and embedded.                                   *)
(***************************************************************************)
InitBatch ==
    /\ cs = NoCs
    /\ InitWith({"A/a.txt", "B/b.pdf"}, FolderPaths)

NextBatch ==
    \/ Start
    \/ AddFolder({"Work"})
    \/ RemoveFolder
    \/ ScanQueueBatch
    \/ EmbeddingsGenerated

SpecBatch == InitBatch /\ [][NextBatch]_vars

(***************************************************************************)
(* SpecRestart: one collection over folder A with the file a.txt, which is *)
(* scanned, embedded, written again and scanned again; the process may die *)
(* inside a handler (after the index is saved and before has_embedding is  *)
(* committed, or after the commit of a batch and before the index is       *)
(* saved).  The application is started again after it has died, the scan   *)
(* timer fires while it is active and the backend answers every batch.     *)
(***************************************************************************)
\* ENABLED <<Start>>_vars, written as a state predicate
StartEnabled ==
    /\ ~running
    /\ WithinBounds(start(World, fs, dirs, oldDb, disk))

\* weak fairness of Start
Restarts ==
    \/ []<>~StartEnabled
    \/ []<><<Start>>_vars

NextRestart ==
    \/ Start
    \/ AddFolder({"Work"})
    \/ ScanQueueBatch
    \/ EmbeddingsGenerated
    \/ DirectoryChanged
    \/ TouchFile

SpecRestart ==
    /\ InitEmbed
    /\ [][NextRestart]_vars
    /\ Restarts
    /\ ScanTimerFires
    /\ WF_vars(EmbeddingsGenerated)

(***************************************************************************)
(* SpecPurge: SpecPair with a scanQueueBatch in which reading or deleting   *)
(* the chunk rows of a document fails.                                     *)
(***************************************************************************)
\* scanQueueBatch with a failing statement of the purge
ScanQueueBatchFails ==
    /\ running
    /\ scanTimer
    /\ \E n \in 1..MaxBatchSteps,
          fault \in {"getChunksByDocumentId", "removeChunksByDocumentId"} :
          LET w == scanQueueBatch(WorldWith(fault), fs, n)
          IN  HasFailed(w) /\ Done(w, inflight)

NextPurge ==
    \/ Start
    \/ AddFolder({"Work"})
    \/ ScanQueueBatch
    \/ ScanQueueBatchFails
    \/ EmbeddingsGenerated
    \/ DirectoryChanged
    \/ TouchFile

SpecPurge == InitPair /\ [][NextPurge]_vars

(***************************************************************************)
(* SpecFault: one collection over folder A with the file a.txt; the file   *)
(* is scanned and embedded, deleted, the folder is removed, the chunk size *)
(* is changed, and a statement of removeFolder, cleanDB or changeChunkSize *)
(* may fail.                                                               *)
(***************************************************************************)
ChunkSizes == {1, 2}

\* changeChunkSize from the settings
ChangeChunkSize ==
    /\ running
    /\ \E size \in ChunkSizes : Done(changeChunkSize(World, fs, size), inflight)

\* removeFolder with a statement that fails
RemoveFolderFails ==
    /\ running
    /\ \E c \in CollectionNames, p \in FolderPaths, fault \in Statements :
          /\ Linked(db, c, p)
          /\ LET w == removeFolder(WorldWith(fault), c, p, TRUE)
             IN  HasFailed(w) /\ Done(w, inflight)

\* directoryChanged with a statement of cleanDB that fails
CleanFails ==
    /\ running
    /\ \E p \in m_watchedPaths, fault \in Statements :
          LET w == directoryChanged(WorldWith(fault), fs, dirs, p)
          IN  HasFailed(w) /\ Done(w, inflight)

\* changeChunkSize with a statement that fails
ChangeChunkSizeFails ==
    /\ running
    /\ \E size \in ChunkSizes, fault \in Statements :
          LET w == changeChunkSize(WorldWith(fault), fs, size)
          IN  HasFailed(w) /\ Done(w, inflight)

InitFault ==
    /\ cs = NoCs
    /\ InitWith({"A/a.txt"}, {"A"})

NextFault ==
    \/ Start
    \/ AddFolder({"Work"})
    \/ RemoveFolder
    \/ ScanQueueBatch
    \/ EmbeddingsGenerated
    \/ DirectoryChanged
    \/ DeleteFile
    \/ ChangeChunkSize
    \/ RemoveFolderFails
    \/ CleanFails
    \/ ChangeChunkSizeFails

SpecFault == InitFault /\ [][NextFault]_vars

(***************************************************************************)
(* SpecUpgrade: only a database of the older version exists when the       *)
(* process first starts.  It lists collections over folder A (holding      *)
(* a.txt) and folder B (holding b.pdf); folder B may have been deleted     *)
(* since.  After the upgrade the user asks for collections to be indexed   *)
(* again, folders are scanned and embedded, and the process dies and       *)
(* starts again.                                                           *)
(***************************************************************************)
OldRows == {<<"Work", "A">>, <<"Work", "B">>, <<"Personal", "A">>}

InitUpgrade ==
    /\ cs = NoCs
    /\ \E old \in (SUBSET OldRows) \ {{}}, folders \in {{"A"}, {"A", "B"}} :
          InitState({"A/a.txt", "B/b.pdf"}, folders, old)

\* forceIndexing from the user interface, with the current embedding model
ForceIndexing ==
    /\ running
    /\ \E c \in CollectionNames :
          /\ db.collections[c].id # -1
          /\ Done(forceIndexing(World, fs, c, EmbModel), inflight)

NextUpgrade ==
    \/ Start
    \/ ForceIndexing
    \/ ScanQueueBatch
    \/ EmbeddingsGenerated
    \/ Crash

SpecUpgrade == InitUpgrade /\ [][NextUpgrade]_vars

(***************************************************************************)
(* Properties.                                                             *)
(***************************************************************************)
\* the length of a chunk: its words joined by single spaces
RECURSIVE SumLen(_)
SumLen(words) == IF words = <<>> THEN 0 ELSE Head(words).len + SumLen(Tail(words))

ChunkChars(words) == SumLen(words) + Len(words) - 1

\* every chunk the chunker specification has produced, in one pass or in
\* slices
ProducedChunks == Range(cs.whole) \cup Range(cs.out)

\* C1: at every point of every behaviour, process deaths included (between
\* handlers, after the save of the index and before the commit of
\* has_embedding, after a commit of removals and before the save of the
\* index), every chunk row of the database whose has_embedding is 1 has its
\* id in the vector index file.
C1_FlaggedChunkIsIndexed ==
    \A c \in db.chunks : c.has_embedding = 1 => c.id \in disk

\* the process has died between the save of the index and the commit: the
\* index file holds the id of a chunk row that is not flagged, next to a
\* flagged one
C1_Witness ==
    /\ ~running
    /\ \E c \in db.chunks : c.has_embedding = 0 /\ c.id \in disk
    /\ \E c \in db.chunks : c.has_embedding = 1

\* C2 as stated: every chunk is no longer than the budget or is one word.
C2_ChunkWithinBudget ==
    \A ch \in ProducedChunks : ChunkChars(ch) <= cs.chunkSize \/ Len(ch) = 1

\* C2, amended: a chunk is closed by the first word that brings its length
\* to the budget or beyond, so every chunk has at least one word and,
\* without its last word, is shorter than the budget (the whole chunk may
\* be longer than the budget, by up to the length of its last word).
C2_ChunkClosesOnReachingBudget ==
    \A ch \in ProducedChunks :
        /\ Len(ch) >= 1
        /\ ChunkChars(SubSeq(ch, 1, Len(ch) - 1)) < cs.chunkSize

\* a chunk of several words that is longer than the budget
C2_Witness ==
    \E ch \in ProducedChunks : Len(ch) >= 2 /\ ChunkChars(ch) > cs.chunkSize

\* C3: when a document without a disallowed byte has been chunked to its
\* end in slices of at most maxChunks chunks, each resumed at the position
\* the one before returned, the chunks are those of one pass with no cap.
C3_SlicesEqualWhole ==
    cs.pc = "done" => cs.out = cs.whole

\* a document that took a capped slice and at least two more to finish
C3_Witness ==
    /\ cs.pc = "done"
    /\ cs.maxChunks > 0
    /\ Len(cs.out) > cs.maxChunks
    /\ cs.out = cs.whole

\* the queued documents
QueuedInfos == UNION {Range(m_docsToScan[k]) : k \in Ids}

\* a queued document that was scanned before and has not changed since: it
\* has a row, is not in progress, and its file has the stored time
Unchanged(info) ==
    /\ db.documents[info.doc].id # -1
    /\ ~info.currentlyProcessing
    /\ fs[info.doc].exists
    /\ fs[info.doc].mtime = db.documents[info.doc].document_time

\* the chunk ids handed on for embedding and not yet answered
Submitted(list, batches) ==
    {list[i].chunk_id : i \in 1..Len(list)}
        \cup UNION {{batches[j][i].chunk_id : i \in 1..Len(batches[j])} :
                       j \in 1..Len(batches)}

\* C4: a scanQueueBatch over a queue of documents that all were scanned
\* before and have the modification time their rows store inserts no chunk
\* row, deletes none, leaves the document rows, the index and the index
\* file as they are, and hands no chunk on for embedding.
C4_RescanOfUnchanged ==
    [][(/\ ScanQueueBatch
        /\ running'
        /\ \A info \in QueuedInfos : Unchanged(info))
       => /\ db' = db
          /\ m_embeddings' = m_embeddings
          /\ disk' = disk
          /\ Submitted(m_chunkList', inflight') = Submitted(m_chunkList, inflight)]_vars

\* a second scan is due: the documents in the queue are unchanged and one
\* of them has chunk rows
C4_Witness ==
    /\ running
    /\ scanTimer
    /\ QueuedInfos # {}
    /\ \A info \in QueuedInfos : Unchanged(info)
    /\ \E info \in QueuedInfos :
          getChunksByDocumentId(db, db.documents[info.doc].id) # {}

\* removeFolder has run to its end and has taken path p out of collection c
Removed(c, p) == Linked(db, c, p) /\ running' /\ ~Linked(db', c, p)

\* the folders linked to collection c, the collections linked to folder p
FoldersOf(d, c) == {p \in FolderPaths : Linked(d, c, p)}
CollectionsOf(d, p) == {c \in CollectionNames : Linked(d, c, p)}

\* the chunk ids of the documents of a folder
ChunksOfFolder(d, folder_id) ==
    UNION {getChunksByDocumentId(d, id) : id \in selectDocuments(d, folder_id)}

\* C5: when removeFolder has succeeded for a folder that is the only folder
\* of its collection and is linked to no other collection, no document row
\* of the folder is left, no chunk row of its documents, no entry of their
\* chunks in the index or the index file, the folder row is gone and the
\* collection row is gone.
C5_RemoveOnlyFolder ==
    [][\A c \in CollectionNames, p \in FolderPaths :
          (/\ Removed(c, p)
           /\ FoldersOf(db, c) = {p}
           /\ CollectionsOf(db, p) = {c})
          => /\ \A f \in FilePaths : db.documents[f].folder_id = db.folders[p]
                                        => db'.documents[f] = NoDocument
             /\ \A id \in selectDocuments(db, db.folders[p]) :
                   getChunksByDocumentId(db', id) = {}
             /\ ChunksOfFolder(db, db.folders[p]) \cap (m_embeddings' \cup disk') = {}
             /\ db'.folders[p] = -1
             /\ db'.collections[c] = NoCollection]_vars

\* a folder whose chunk was in the index (a retrieval has been made since
\* the start, and one is made only from an index that is not empty) has
\* been removed with its collection: nothing is left in the database, the
\* index or the index file
C5_Witness ==
    /\ running
    /\ results.called
    /\ db.chunks = {}
    /\ FolderIdsOf(db) = {}
    /\ CollectionIdsOf(db) = {}
    /\ disk = {}
    /\ m_embeddings = {}

\* C6: when removeFolder has taken a folder out of a collection, the
\* collection row is as before if another collection_items row still links
\* the collection, and is gone if none does; the documents of the other
\* folders, and their chunks, are as before.
C6_CollectionOutlivesFolder ==
    [][\A c \in CollectionNames, p \in FolderPaths :
          Removed(c, p)
          => /\ IF FoldersOf(db, c) # {p}
                THEN db'.collections[c] = db.collections[c]
                ELSE db'.collections[c] = NoCollection
             /\ \A f \in FilePaths :
                   (db.documents[f].id # -1 /\ db.documents[f].folder_id # db.folders[p])
                   => /\ db'.documents[f] = db.documents[f]
                      /\ getChunksByDocumentId(db', db.documents[f].id)
                            = getChunksByDocumentId(db, db.documents[f].id)]_vars

\* "Work" had the folders A and B; A has been removed (B has folder id 2,
\* so A was added before it) and "Work" is left with the document of B
C6_Witness ==
    /\ running
    /\ db.folders["B"] = 2
    /\ db.folders["A"] = -1
    /\ db.collections["Work"].id = 1
    /\ db.collections["Personal"].id = -1
    /\ Linked(db, "Work", "B")
    /\ db.documents["B/b.pdf"].id # -1
    /\ getChunksByDocumentId(db, db.documents["B/b.pdf"].id) # {}

\* the chunk ids the claim expects of a retrieval: those of the hits whose
\* chunk belongs to a document of a folder linked to one of the collections
Matching(d, collection_names, hits) ==
    {id \in hits \cap ChunkIdsOf(d) :
        \E c \in collection_names, p \in FolderPaths :
           Linked(d, c, p) /\ d.folders[p] = FolderOfChunk(d, id)}

\* C7 as stated: retrieveFromDB returns exactly the hits of the index whose
\* chunk belongs to a document of a folder linked to a requested collection.
C7_RetrievalFiltersByCollection ==
    [][results' # results
       => results'.rows = Matching(db, {"Work"}, m_embeddings)]_vars

\* a text file with a disallowed byte
HasBinary(f) ==
    ~isPdf(f) /\ \E i \in 1..Len(ContentOf(f)) : IsBinaryByte(ContentOf(f)[i])

\* no entry of the queue is for file f
NotQueued(f) == \A info \in QueuedInfos : info.doc # f

\* C8 as stated: once the scan of a text file with a disallowed byte has
\* ended, the document has its row, with the file's modification time, and
\* no chunk row.
C8_BinaryFileHasNoChunks ==
    \A f \in FilePaths :
        (/\ HasBinary(f)
         /\ running
         /\ NotQueued(f)
         /\ db.documents[f].id # -1)
        => getChunksByDocumentId(db, db.documents[f].id) = {}

\* the chunks of file f in one pass with the chunk size in force
AllChunksOf(f) ==
    IF isPdf(f)
    THEN Len(PagesOf(f)) \* one chunk a page in this model
    ELSE Len(chunkStream(ContentOf(f), 0, m_chunkSize, 0).chunks)

\* C9 as stated, at the end of the scans: when the process is up, the queue
\* is empty and a text file without a disallowed byte has a row with the
\* file's modification time, the document is chunked in full.
C9_InterruptedScanIsCompleted ==
    \A f \in FilePaths :
        (/\ ~HasBinary(f)
         /\ ~isPdf(f)
         /\ running
         /\ QueueEmpty(m_docsToScan)
         /\ fs[f].exists
         /\ db.documents[f].id # -1
         /\ db.documents[f].document_time = fs[f].mtime)
        => Cardinality(getChunksByDocumentId(db, db.documents[f].id)) = AllChunksOf(f)

\* the batches a step has handed to the backend
NewBatches == SubSeq(inflight', Len(inflight) + 1, Len(inflight'))

IdsOfBatch(batch) == {batch[i].chunk_id : i \in 1..Len(batch)}

\* C11: when handleEmbeddingsGenerated has run for a batch, the ids of the
\* batch whose chunk row is gone are not added to the index and no row is
\* written for them; the ids whose row exists are in the index and their
\* rows have has_embedding = 1; the other rows are as before.
C11_StaleResultSkipped ==
    [][(EmbeddingsGenerated /\ running')
       => \E i \in 1..Len(inflight) :
             LET live == IdsOfBatch(inflight[i]) \cap ChunkIdsOf(db)
             IN  /\ inflight' = Without(inflight, i)
                 /\ m_embeddings' = m_embeddings \cup live
                 /\ ChunkIdsOf(db') = ChunkIdsOf(db)
                 /\ \A c \in db.chunks :
                       [c EXCEPT !.has_embedding = IF c.id \in live THEN 1 ELSE @]
                          \in db'.chunks]_vars

\* a batch at the backend holds the id of a chunk row that has been
\* deleted since, next to the id of a row that exists and is not flagged
C11_Witness ==
    /\ running
    /\ \E i \in 1..Len(inflight) :
          /\ IdsOfBatch(inflight[i]) \ ChunkIdsOf(db) # {}
          /\ \E c \in db.chunks : c.id \in IdsOfBatch(inflight[i]) /\ c.has_embedding = 0

\* the folder is linked, and only to collections without an embedding model
AwaitsForceIndexing(d, p) ==
    /\ d.folders[p] # -1
    /\ CollectionsOf(d, p) # {}
    /\ \A c \in CollectionsOf(d, p) : d.collections[c].embedding_model = Null

\* C12: when start() finds only a database of the older version, every
\* (collection, folder) row of it is linked again in the new database, the
\* collection has no embedding model, the new database has no chunk and
\* the index no vector; and as long as no collection of a folder has an
\* embedding model (forceIndexing sets it), the folder is not watched, has
\* no queued document and no document row.
C12_UpgradeKeepsCollections ==
    [][/\ (Start /\ ~db.tables)
          => /\ \A pair \in oldDb :
                   /\ Linked(db', pair[1], pair[2])
                   /\ db'.collections[pair[1]].embedding_model = Null
             /\ db'.chunks = {}
             /\ m_embeddings' = {}
       /\ \A p \in FolderPaths :
             AwaitsForceIndexing(db', p)
                => /\ m_docsToScan'[db'.folders[p]] = <<>>
                   /\ p \notin m_watchedPaths'
                   /\ \A f \in FilePaths :
                         db'.documents[f].folder_id # db'.folders[p]]_vars

\* the collection items the user interface has been given
Items == {m_collectionMap[id] : id \in {k \in Ids : MapContains(m_collectionMap, k)}}

\* C13 as stated: an item with installed = true has an embedding model.
C13_InstalledHasModel ==
    \A item \in Items : item.installed => item.embeddingModel # Null

\* C13, amended: an item with installed = true that is not marked as
\* needing forced indexing has an embedding model; an item read from a
\* collection row without a model is installed and marked forceIndexing.
C13_InstalledHasModelOrIsForced ==
    \A item \in Items :
       (item.installed /\ ~item.forceIndexing) => item.embeddingModel # Null

C13_Witness ==
    /\ \E item \in Items :
          item.installed /\ item.forceIndexing /\ item.embeddingModel = Null
    /\ \E item \in Items :
          item.installed /\ ~item.forceIndexing /\ item.embeddingModel = EmbModel

\* the document rows of a folder
DocumentsOfFolder(d, folder_id) ==
    {f \in FilePaths : d.documents[f].id # -1 /\ d.documents[f].folder_id = folder_id}

\* C14: a step that deletes a folder row leaves no collection_items row
\* with the folder's id; and when removeFolder takes a folder out of one
\* collection while another collection still links it, the folder row, its
\* document rows and their chunks are as before and nothing is removed
\* from the index or the index file.
C14_SharedFolderIsKept ==
    [][\A p \in FolderPaths :
          /\ (db.folders[p] # -1 /\ db'.folders[p] = -1)
                => \A i \in db'.collection_items : i[2] # db.folders[p]
          /\ \A c \in CollectionNames :
                (Removed(c, p) /\ CollectionsOf(db, p) # {c})
                => /\ db'.folders[p] = db.folders[p]
                   /\ \A f \in DocumentsOfFolder(db, db.folders[p]) :
                         db'.documents[f] = db.documents[f]
                   /\ ChunksOfFolder(db', db.folders[p])
                         = ChunksOfFolder(db, db.folders[p])
                   /\ {ch \in db'.chunks : ch.id \in ChunksOfFolder(db, db.folders[p])}
                         = {ch \in db.chunks : ch.id \in ChunksOfFolder(db, db.folders[p])}
                   /\ m_embeddings' = m_embeddings
                   /\ disk' = disk]_vars

\* folder B was the first folder and has been linked ever since; "Work",
\* the first collection, is gone and "Personal", created while "Work"
\* existed, still links B: B has been removed from "Work" while "Personal"
\* linked it, and its document still has a chunk in the index
C14_Witness ==
    /\ running
    /\ db.folders["B"] = 1
    /\ db.collections["Work"].id = -1
    /\ db.collections["Personal"].id = 2
    /\ Linked(db, "Personal", "B")
    /\ ChunksOfFolder(db, 1) \cap m_embeddings # {}

\* C15: while a folder has no row (it has been removed from its last
\* collection and not been added again), the scan queue holds no document
\* of it and no document of it has a row; and every queued document is
\* queued under the id of its folder's row.
C15_RemovedFolderIsNotScanned ==
    /\ \A p \in FolderPaths :
          db.folders[p] = -1
          => /\ \A info \in QueuedInfos : FolderOf(info.doc) # p
             /\ \A f \in FilePaths : FolderOf(f) = p => db.documents[f] = NoDocument
    /\ \A k \in Ids : \A info \in Range(m_docsToScan[k]) :
          info.folder = k /\ db.folders[FolderOf(info.doc)] = k

\* the scan timer is still active (scanQueueBatch stops it when it finds
\* the queue empty) but the queue is empty and no folder has a row: the
\* last folder was removed while documents of it were queued
C15_Witness ==
    /\ running
    /\ scanTimer
    /\ QueueEmpty(m_docsToScan)
    /\ FolderIdsOf(db) = {}

\* C16: a removeFolder, a cleanDB (run by directoryChanged) or a
\* changeChunkSize in which a statement fails leaves the database as it was
\* before the handler, and the index and the index file as they were.
C16_FailureRollsBack ==
    [][(RemoveFolderFails \/ CleanFails \/ ChangeChunkSizeFails)
       => /\ db' = db
          /\ m_embeddings' = m_embeddings
          /\ disk' = disk]_vars

\* the document of a.txt has a chunk in the index and its file is gone, so
\* that each of the three handlers deletes its chunk rows; each of them
\* fails when the delete of the document row fails after that
C16_Witness ==
    /\ running
    /\ ~fs["A/a.txt"].exists
    /\ db.documents["A/a.txt"].id # -1
    /\ getChunksByDocumentId(db, db.documents["A/a.txt"].id) \cap m_embeddings # {}
    /\ HasFailed(removeFolder(WorldWith("removeDocument"), "Work", "A", TRUE))
    /\ HasFailed(cleanDB(WorldWith("removeDocument"), fs, dirs))
    /\ HasFailed(changeChunkSize(WorldWith("removeDocument"), fs, 2))

\* the entry a document is put back with after a slice that did not finish
\* it: the next page of a PDF, the position chunkStream returned for a text
Resumed(info) ==
    IF isPdf(info.doc)
    THEN [info EXCEPT !.currentPage = @ + 1, !.currentlyProcessing = TRUE]
    ELSE [info EXCEPT
             !.currentPosition = chunkStream(ContentOf(info.doc), @, m_chunkSize,
                                             MaxChunksPerSlice).pos,
             !.currentlyProcessing = TRUE]

\* C17: only the first entry of a folder's queue can be a document in
\* progress; and a scanQueue takes the first entry of the first folder's
\* queue and leaves the queue either without it, or with it put back in
\* front as a document in progress with its resume position, the entries
\* behind it in the order they had, the queues of the other folders as they
\* were.
C17_ScanTakesHeadInOrder ==
    /\ \A k \in Ids : \A i \in 2..Len(m_docsToScan[k]) :
          ~m_docsToScan[k][i].currentlyProcessing
    /\ ~QueueEmpty(m_docsToScan)
          => LET k   == firstKey(m_docsToScan)
                 old == m_docsToScan[k]
                 new == scanQueue(World, fs).q
             IN  /\ \A j \in Ids \ {k} : new[j] = m_docsToScan[j]
                 /\ \/ new[k] = Tail(old)
                    \/ new[k] = <<Resumed(Head(old))>> \o Tail(old)

\* a document in progress, with its resume position, stands in front of
\* another document of its folder
C17_Witness ==
    \E k \in Ids :
       /\ Len(m_docsToScan[k]) >= 2
       /\ m_docsToScan[k][1].currentlyProcessing
       /\ m_docsToScan[k][1].currentPosition > 0
       /\ m_docsToScan[k][2].doc # m_docsToScan[k][1].doc
       /\ scanQueue(World, fs).q[k] = <<Resumed(m_docsToScan[k][1])>> \o Tail(m_docsToScan[k])

\* C18: every batch at the embedding backend holds at least one chunk and
\* at most s_batchSize chunks (100 in the source), and the chunks waiting
\* for a batch are fewer than s_batchSize.
C18_BatchSize ==
    /\ \A i \in 1..Len(inflight) :
          Len(inflight[i]) >= 1 /\ Len(inflight[i]) <= s_batchSize
    /\ Len(m_chunkList) < s_batchSize

\* a full batch and a batch of one chunk are at the backend while the index
\* file already holds vectors (as after a start that found chunks without
\* the embedding flag and scheduled them again)
C18_Witness ==
    /\ running
    /\ \E i \in 1..Len(inflight) : Len(inflight[i]) = s_batchSize
    /\ \E i \in 1..Len(inflight) : Len(inflight[i]) = 1
    /\ disk # {}

\* C19: a retrieveFromDB while the index is not loaded appends no row to
\* the result list, does not ask for the embedding of the query, and
\* leaves the database, the index and the index file as they are.
C19_RetrievalRejected ==
    [][(Retrieve /\ ~isLoaded(m_embeddings))
       => /\ results'.rows = {}
          /\ ~results'.called
          /\ db' = db
          /\ m_embeddings' = m_embeddings
          /\ disk' = disk]_vars

\* a retrieval has been rejected while the folders of "Work" have chunks
\* that are not embedded yet
C19_Witness ==
    /\ running
    /\ results.done
    /\ ~results.called
    /\ m_embeddings = {}
    /\ \E ch \in db.chunks :
          \E p \in FoldersOf(db, "Work") : FolderOfChunk(db, ch.id) = db.folders[p]

\* the document rows a step removes
RemovedDocuments == DocumentIdsOf(db) \ DocumentIdsOf(db')

\* C20: after a clean pass (start, directoryChanged, changeFileExtensions)
\* every folder row names a directory that exists, every document row
\* names a file that exists and has a scanned extension, and the chunks of
\* every document row the pass removed are gone from the chunks table and
\* from the index.
C20_CleanPassCleans ==
    [][(Start \/ DirectoryChanged \/ ChangeFileExtensions)
       => /\ \A p \in FolderPaths : db'.folders[p] # -1 => p \in dirs
          /\ \A f \in FilePaths :
                db'.documents[f].id # -1
                   => fs[f].exists /\ suffix(f) \in m_scannedFileExtensions'
          /\ \A ch \in db.chunks :
                ch.document_id \in RemovedDocuments
                   => ch \notin db'.chunks /\ ch.id \notin m_embeddings']_vars

\* C21: a changeChunkSize to another value leaves no document row, none of
\* the chunk rows there were, and none of their ids in the index; a
\* changeChunkSize to the value in force changes nothing.
C21_ChangeChunkSizeRechunks ==
    [][ChangeChunkSize
       => IF m_chunkSize' # m_chunkSize
          THEN /\ DocumentIdsOf(db') = {}
               /\ ChunkIdsOf(db') \cap ChunkIdsOf(db) = {}
               /\ m_embeddings' \cap ChunkIdsOf(db) = {}
          ELSE UNCHANGED vars]_vars

\* C22: every slice of a PDF is the slice of one of its pages: an entry of
\* the scan queue for a PDF of N pages has a page index in 0..N-1, and the
\* page stored on a chunk of the PDF is within 1..N.
C22_PdfSliceIsAPage ==
    /\ \A info \in QueuedInfos :
          isPdf(info.doc) => info.currentPage \in 0..(Len(PagesOf(info.doc)) - 1)
    /\ \A f \in FilePaths : \A ch \in db.chunks :
          (isPdf(f) /\ db.documents[f].id # -1 /\ ch.document_id = db.documents[f].id)
             => ch.page \in 1..Len(PagesOf(f))

\* a word of a chunk is a whole word of the document: white space or an
\* end of the document on either side
WholeWord(data, word) ==
    /\ word.off = 0 \/ IsSpace(data[word.off])
    /\ word.off + word.len = Len(data) \/ IsSpace(data[word.off + word.len + 1])

RECURSIVE join(_, _)
join(data, words) ==
    IF words = <<>> THEN <<>>
    ELSE LET word == SubSeq(data, Head(words).off + 1, Head(words).off + Head(words).len)
         IN  IF Len(words) = 1 THEN word
             ELSE word \o <<32>> \o join(data, Tail(words))

\* the texts of the chunks of one pass over the document
ChunkTexts == [i \in 1..Len(cs.whole) |-> join(cs.data, cs.whole[i])]

\* the document is the whole example, the budget is 10 and the pass is done
ExampleChunked ==
    /\ cs.data = ExampleText
    /\ cs.chunkSize = 10
    /\ cs.pc # "start"

\* C24 as stated: the example with budget 10 gives the five chunks
\* "alpha", "beta", "gamma", "delta", "epsilon".
C24_ExampleFiveChunks ==
    ExampleChunked
       => ChunkTexts = << <<97, 108, 112, 104, 97>>,
                          <<98, 101, 116, 97>>,
                          <<103, 97, 109, 109, 97>>,
                          <<100, 101, 108, 116, 97>>,
                          <<101, 112, 115, 105, 108, 111, 110>> >>

\* C24, amended: the example with budget 10 gives the three chunks
\* "alpha beta" (which reaches the budget with its second word),
\* "gamma delta" and "epsilon".
C24_ExampleThreeChunks ==
    ExampleChunked
       => ChunkTexts = << <<97, 108, 112, 104, 97, 32, 98, 101, 116, 97>>,
                          <<103, 97, 109, 109, 97, 32, 100, 101, 108, 116, 97>>,
                          <<101, 112, 115, 105, 108, 111, 110>> >>

\* the example has been chunked with budget 10, in one pass and in slices
C24_Witness ==
    /\ cs.data = ExampleText
    /\ cs.chunkSize = 10
    /\ cs.pc = "done"
    /\ Len(cs.whole) = 3
    /\ cs.out = cs.whole

\* the bytes the claim lists: 0x00-0x06, 0x0E-0x1A, 0x1C-0x1F
ListedBytes == (0..6) \cup (14..26) \cup (28..31)

\* a listed byte is among the bytes the file has read so far
ListedByteRead == \E i \in 1..cs.qpos : cs.data[i] \in ListedBytes

\* C25: the file has binarySeen set, and its last read failed, exactly
\* when a listed byte is among the bytes read so far (so no other byte sets
\* it, and once it is set every read fails); and scanQueue takes the file
\* for binary exactly then, and for a read error when the read failed
\* without a listed byte.
C25_BinaryDetection ==
    /\ cs.m_binarySeen <=> ListedByteRead
    /\ cs.m_binarySeen => cs.res = -1
    /\ cs.pc = "closed"
          => /\ cs.outcome = "binary" <=> ListedByteRead
             /\ cs.outcome = "error" <=> (cs.res = -1 /\ ~ListedByteRead)

\* a file whose first byte is listed and whose second is not has been read
\* to its end, one byte a read, and was taken for binary
C25_Witness ==
    /\ cs.pc = "closed"
    /\ Len(cs.data) = 2
    /\ cs.qpos = 2
    /\ cs.data[1] \in ListedBytes
    /\ cs.data[2] \notin ListedBytes
    /\ cs.outcome = "binary"

\* the chunk ids whose has_embedding is set
Flagged(d) == {c.id : c \in {x \in d.chunks : x.has_embedding = 1}}

\* the ids of batch i whose add to the index succeeds: their chunk row
\* exists and the index does not reject them
Added(i, rejected) ==
    ({e.chunk_id : e \in Range(inflight[i])} \cap ChunkIdsOf(db)) \ rejected

\* C26: in every handling of a batch, whichever vectors the index rejects:
\* when no vector was added, the index file and the database stay as they
\* are; otherwise the file holds the index with the added ids, every id
\* whose flag the handling sets is in the file (in the handling that the
\* death of the process cuts short too, so the save precedes the commit),
\* and a handling that ends has set the flag of exactly the added ids.
C26_SaveThenFlagTheAdded ==
    [][\A i \in 1..Len(inflight) :
          \A rejected \in SUBSET {e.chunk_id : e \in Range(inflight[i])} :
             (running /\ EmbeddingsHandled(i, rejected))
                => IF Added(i, rejected) = {}
                   THEN disk' = disk /\ db' = db
                   ELSE /\ disk' = m_embeddings \cup Added(i, rejected)
                        /\ Flagged(db') \ Flagged(db) \subseteq disk'
                        /\ running'
                              => Flagged(db') = Flagged(db) \cup Added(i, rejected)]_vars

\* the index has rejected the vector of one chunk and taken that of
\* another: one chunk row is flagged and in the index file, another is not
\* flagged, not in the index and no longer on its way to the backend
C26_Witness ==
    /\ running
    /\ \E c \in db.chunks : c.has_embedding = 1 /\ c.id \in disk
    /\ \E c \in db.chunks :
          /\ c.has_embedding = 0
          /\ c.id \notin m_embeddings
          /\ c.id \notin Submitted(m_chunkList, inflight)

\* a handler is between the end of its loop and its return
InTail == cs.pc \in {"remove", "commit", "save"}

RescanHead(f) ==
    /\ running
    /\ ~QueueEmpty(m_docsToScan)
    /\ LET info == Head(m_docsToScan[firstKey(m_docsToScan)])
       IN  info.doc = f /\ ~info.currentlyProcessing
    /\ fs[f].exists
    /\ db.documents[f].id # -1
    /\ db.documents[f].document_time # fs[f].mtime

\* C28: a scanQueueBatch that begins with such an entry keeps the id of the
\* document row and stores the file's modification time on it, leaves none
\* of the chunk rows the document had, takes their ids out of the index
\* (exactly theirs when no other document is queued), and the chunk rows
\* the document has afterwards are rows inserted by this batch.
C28_RescanPurgesAndKeepsRow ==
    [][\A f \in FilePaths :
          (ScanQueueBatch /\ RescanHead(f))
             => LET id  == db.documents[f].id
                    old == getChunksByDocumentId(db, id)
                IN  /\ db'.documents[f].id = id
                    /\ db'.documents[f].document_time = fs[f].mtime
                    /\ ChunkIdsOf(db') \cap old = {}
                    /\ getChunksByDocumentId(db', id)
                          \subseteq (db.chunk_seq + 1)..db'.chunk_seq
                    /\ running' => m_embeddings' \cap old = {}
                    /\ (running' /\ \A info \in QueuedInfos : info.doc = f)
                          => m_embeddings' = m_embeddings \ old]_vars

\* a.txt was written after its scan and has been scanned again: its row
\* stores the later time, the first chunk row ever inserted (the file's
\* first chunk) is gone, and the document has chunk rows
C28_Witness ==
    /\ running
    /\ db.documents["A/a.txt"].id # -1
    /\ db.documents["A/a.txt"].document_time > 1
    /\ 1 \notin ChunkIdsOf(db)
    /\ 1 \notin m_embeddings
    /\ getChunksByDocumentId(db, db.documents["A/a.txt"].id) # {}

\* C29: whenever the scan timer is active, the scan batches that follow
\* empty the scan queue and stop the timer (the folders are added a finite
\* number of times, the files are finite).
C29_ScanQueueDrains ==
    scanTimer ~> (QueueEmpty(m_docsToScan) /\ ~scanTimer)

\* the queue has drained after the text file took several slices and the
\* PDF one slice a page: both documents have all their chunks
C29_Witness ==
    /\ running
    /\ ~scanTimer
    /\ QueueEmpty(m_docsToScan)
    /\ db.documents["A/a.txt"].id # -1
    /\ db.documents["B/b.pdf"].id # -1
    /\ Cardinality(getChunksByDocumentId(db, db.documents["A/a.txt"].id))
          > MaxChunksPerSlice
    /\ getChunksByDocumentId(db, db.documents["B/b.pdf"].id) # {}

\* C30: every batch handed to the embedding backend holds chunks of one
\* folder only, which is what handleEmbeddingsGenerated asserts of it
C30_BatchOfOneFolder ==
    \A i \in 1..Len(inflight) :
       \A e, g \in Range(inflight[i]) : e.folder_id = g.folder_id

\* C31: the batch a handler is called for belongs to a folder that has a
\* status item.  Any batch in flight may be answered next, by
\* handleEmbeddingsGenerated or by handleErrorGenerated, and both call
\* guiCollectionItem with the folder id of the batch.
C31_AnsweredFolderHasItem ==
    running =>
       \A i \in 1..Len(inflight) :
          MapContains(m_collectionMap, inflight[i][1].folder_id)

\* C32: no chunk row has document_id -1: scanQueue reaches its chunking
\* step only with the id of a document row
C32_ChunkHasDocument ==
    \A c \in db.chunks : c.document_id # -1

\* C33: a scanQueueBatch in which the chunk rows of a document could not be
\* deleted removes none of the vectors of the chunk rows that are left
C33_FailedPurgeKeepsVectors ==
    [][ScanQueueBatchFails
       => \A c \in db'.chunks :
             (c.has_embedding = 1 /\ c.id \in m_embeddings)
                => c.id \in m_embeddings']_vars

\* the white-space separated words of a document: the maximal runs of
\* bytes that are not white space
WordsOf(data) ==
    {w \in [off : 0..Len(data), len : 1..Len(data)] :
        /\ w.off + w.len <= Len(data)
        /\ \A i \in (w.off + 1)..(w.off + w.len) : ~IsSpace(data[i])
        /\ WholeWord(data, w)}

\* the words of the chunks, chunk after chunk
RECURSIVE Flatten(_)
Flatten(chunks) ==
    IF chunks = <<>> THEN <<>> ELSE Head(chunks) \o Flatten(Tail(chunks))

\* the chunks hold exactly the words of the document, each once and in the
\* order of the document, and no chunk is empty
ExactlyTheWords(data, chunks) ==
    LET words == Flatten(chunks)
    IN  /\ \A i \in 1..Len(chunks) : chunks[i] # <<>>
        /\ Range(words) = WordsOf(data)
        /\ \A i \in 1..(Len(words) - 1) :
              words[i].off + words[i].len < words[i + 1].off

\* C34 as stated: for every document, the chunks of a pass hold exactly the
\* words of the document.
C34_ChunksAreTheWords ==
    cs.pc # "start" => ExactlyTheWords(cs.data, cs.whole)

\* C34, amended: the chunks of a pass whose reads all succeed hold exactly
\* the words of the document, each once, whole and in order, and no chunk is
\* empty; so do the chunks of the slices once the document is done.  (A read
\* fails on a block with a binary byte: chunkStream then returns -1 and the
\* chunks inserted so far hold only the words delivered before that block,
\* the last of them cut at the block's border.)
C34_ChunksAreTheWordsOfText ==
    (cs.pc # "start" /\ ~binarySeen(cs.data, 0))
       => /\ ExactlyTheWords(cs.data, cs.whole)
          /\ cs.pc = "done" => ExactlyTheWords(cs.data, cs.out)

\* a text with two white space characters in a row that is done in capped
\* slices and gives several chunks
C34_Witness ==
    /\ cs.pc = "done"
    /\ ~binarySeen(cs.data, 0)
    /\ \E i \in 1..(Len(cs.data) - 1) : IsSpace(cs.data[i]) /\ IsSpace(cs.data[i + 1])
    /\ cs.maxChunks > 0
    /\ Len(cs.out) >= 2
    /\ ExactlyTheWords(cs.data, cs.out)

\* C35: once the scan queue has drained, every document row is of a file
\* whose extension is in the list of scanned extensions
C35_RowsHaveAllowedExtension ==
    (running /\ QueueEmpty(m_docsToScan))
       => \A f \in FilePaths :
             db.documents[f].id # -1 => suffix(f) \in m_scannedFileExtensions

\* chunk row id of a document of a folder is not flagged as embedded
Uncompleted(id) ==
    \E c \in db.chunks :
       c.id = id /\ c.has_embedding # 1 /\ FolderOfChunk(db, id) # -1

\* C36: a chunk row that is in the database and not flagged when the
\* process is down is, after the start, embedded and flagged: it is in the
\* index and its row has has_embedding = 1 (unless a rescan of its document
\* has deleted the row by then).
C36_UncompletedIsCompleted ==
    \A id \in 1..MaxChunkId :
       (~running /\ Uncompleted(id))
          ~> \/ running /\ id \in m_embeddings /\ id \in Flagged(db)
             \/ id \notin ChunkIdsOf(db)

\* the process died while a.txt was scanned in part and its chunks were not
\* flagged, and has started again (a scan that is not interrupted leaves
\* more than MaxChunksPerSlice chunks of a.txt): nothing is queued or in
\* flight any more and every chunk row is flagged and indexed
C36_Witness ==
    /\ running
    /\ QueueEmpty(m_docsToScan)
    /\ inflight = <<>>
    /\ db.chunks # {}
    /\ Cardinality(db.chunks) <= MaxChunksPerSlice
    /\ \A c \in db.chunks : c.has_embedding = 1 /\ c.id \in m_embeddings

\* C37: after a scanQueue step the status item of the folder it scanned
\* counts the entries queued for that folder; when none is left the item is
\* installed and not indexing, and the pending chunk list is empty.
C37_ScanStepUpdatesStatus ==
    (running /\ ~QueueEmpty(m_docsToScan)) =>
       LET key  == firstKey(m_docsToScan)
           w    == scanQueue(World, fs)
           item == w.map[key]
       IN  /\ item.currentDocsToIndex = Len(w.q[key])
           /\ Len(w.q[key]) = 0
                 => (~item.indexing /\ item.installed /\ w.list = <<>>)

\* the scanQueue step that takes the last entry of a folder, makes chunks
\* of it and sends the pending chunk list
C37_Witness ==
    /\ running
    /\ ~QueueEmpty(m_docsToScan)
    /\ LET key == firstKey(m_docsToScan)
           w   == scanQueue(World, fs)
       IN  /\ Len(w.q[key]) = 0
           /\ w.db.chunks # db.chunks
           /\ w.sent # <<>>
           /\ w.list = <<>>
           /\ w.map[key].installed

\* C38: an addFolder that fails leaves the tables folders, collections and
\* collection_items as they were
C38_FailedAddFolderChangesNothing ==
    [][AddFolderFails
       => /\ db'.folders = db.folders
          /\ db'.collections = db.collections
          /\ db'.collection_items = db.collection_items]_vars

\* addFolder called for collection c and folder p leaves the database, the
\* status map, the scan queue, the watched paths and the timer as they are
\* and hands nothing to the backend
AddFolderChangesNothing(c, p) ==
    LET w == addFolder(World, fs, dirs, c, p, EmbModel)
    IN  /\ w.db = db
        /\ w.map = m_collectionMap
        /\ w.q = m_docsToScan
        /\ w.watched = m_watchedPaths
        /\ w.timer = scanTimer
        /\ w.list = m_chunkList
        /\ w.sent = <<>>

\* C39 as stated: addFolder for a pair that is already linked returns
\* success and changes nothing.
C39_AddFolderIdempotent ==
    running =>
       \A c \in CollectionNames, p \in FolderPaths :
          Linked(db, c, p)
             => addFolderOk(World, dirs, p) /\ AddFolderChangesNothing(c, p)

\* C39, amended: addFolder for a pair that is already linked changes
\* nothing; it returns success when the folder's directory still exists and
\* is readable, and failure when it does not.
C39_AddFolderAgainChangesNothing ==
    running =>
       \A c \in CollectionNames, p \in FolderPaths :
          Linked(db, c, p)
             => /\ addFolderOk(World, dirs, p) <=> p \in dirs
                /\ AddFolderChangesNothing(c, p)

\* a linked folder whose directory exists and whose file has been scanned,
\* nothing queued: a rescan would queue the file again
C39_Witness ==
    /\ running
    /\ QueueEmpty(m_docsToScan)
    /\ db.chunks # {}
    /\ \E c \in CollectionNames, p \in FolderPaths :
          /\ Linked(db, c, p)
          /\ p \in dirs
          /\ addFolderOk(World, dirs, p)
          /\ AddFolderChangesNothing(c, p)

(***************************************************************************)
(* SpecSearch: one collection over folder A with the file a.txt; the file  *)
(* is scanned, its chunks are embedded, the file changes and is scanned    *)
(* again, and retrievals run whose search returns any number of ids.       *)
(***************************************************************************)
NextSearch ==
    \/ Start
    \/ AddFolder({"Work"})
    \/ ScanQueueBatch
    \/ EmbeddingsGenerated
    \/ DirectoryChanged
    \/ TouchFile
    \/ Search
    \/ SearchDies

SpecSearch == InitEmbed /\ [][NextSearch]_vars

\* C40: selectChunk is only called with a non-empty list of chunk ids: no
\* retrieval hands it the empty result of a search, so no retrieval reads
\* chunk_ids[0] of an empty list.
C40_SelectChunkGetsIds == ~results.oob

====
